---------------------------- MODULE Spec2Model ----------------------------
(***************************************************************************)
(* Verification model of berkekorucu/tradebot.                             *)
(*                                                                         *)
(*   Part 1  ExchangeGateway   BinanceClient.api_retry   binance_client.py *)
(*   Part 2  OpportunityPool   DynamicTargetPool         market_data.py    *)
(*   Part 3  RiskManager       limits, protection, size  risk.py           *)
(*   Part 4  PositionManager   entries, stops, closes    position.py       *)
(*                                                                         *)
(* Each part has its own specification over the shared variable list; a    *)
(* part's actions leave the other part's variables unchanged.              *)
(***************************************************************************)
EXTENDS Integers, Sequences, FiniteSets, TLC

VARIABLES
    \* ---- ExchangeGateway (BinanceClient) ----
    now,                 \* time.time(), in ticks of MinTimeBetweenCalls/2 (25 ms)
    last_api_call_time,  \* self.last_api_call_time
    max_retries,         \* self.max_retries (constructor argument)
    lock,                \* self._lock: the task holding it, or NoTask
    lock_waiters,        \* tasks suspended in self._lock.acquire(), FIFO
    pc,                  \* per task: where its api_retry call stands
    attempt,             \* per task: loop variable of "for attempt in range(1, max_retries+1)"
    wake,                \* per task: the instant its pending asyncio.sleep ends
    received,            \* per task: what the caller of api_retry got back
    call_owner,          \* the task whose call entered the lock section last
    responses,           \* venue answers to the attempts of that call, in order
    attempts_made,       \* executor calls made for that call
    sleeps,              \* backoff sleeps (seconds) requested by that call, in order
    raised,              \* exception raised by the body of api_retry for that call
    leverage_cache,      \* self._leverage_cache: 0 stands for "no entry"
    venue_leverage,      \* the leverage the venue has set for the symbol, 0 before
                         \* the first futures_change_leverage
    \* ---- OpportunityPool (DynamicTargetPool) ----
    current_time,        \* time.time() as the pool reads it, in seconds
    max_pool_size,       \* self.max_pool_size
    targets,             \* keys of self.targets, in dict (insertion) order
    score,               \* self.targets[s]['score'], in units of 1/ScoreUnit
    price_change_24h,    \* self.targets[s]['price_change_24h'], in percent
    attempt_failures,    \* self.attempt_failures: count 0 stands for "no entry"
    success_history,     \* self.success_history[s]['count']: 0 stands for "no entry"
    evicted,             \* entries deleted by the step just taken, with their scores
    top,                 \* call and return value of get_top_targets, if the step
                         \* just taken was one
    \* ---- RiskManager ----
    clock,               \* datetime.now(), in seconds
    protection_mode,     \* self.protection_mode
    protection_reason,   \* self.protection_reason
    protection_start_time, \* self.protection_start_time, NoTime for None
    balances,            \* self.balances['USDT']: wallet + unrealized, and available
    initial_balance,     \* self.initial_balance
    peak_balance,        \* self.peak_balance
    drawdown,            \* self.drawdown, in units of 1/PctUnit percent
    open_positions,      \* self.open_positions, as the venue listed them
    daily_pnl,           \* self.daily_pnl[today]: total_pnl and trade_count
    limits,              \* call and return value of check_risk_limits, if the step
                         \* just taken was one
    sizing,              \* call and return value of calculate_position_size, likewise
    recorded,            \* entries the step just taken appended to self.position_history
    \* ---- PositionManager ----
    position_lock,       \* self.position_lock: the task holding it, or NoTask
    pm_pc,               \* per task: where its PositionManager call stands
    pm_frame,            \* per task: arguments and locals of that call
    active_trades,       \* self.active_trades[symbol], NoTrade for a missing key
    stop_orders,         \* self.stop_orders[symbol]['price'], NoStop for a missing key
    orders,              \* orders the venue accepted for the open position, in order
    submitted,           \* the order submitted by the step just taken, or NoOrder
    take_profit_orders,  \* len(self.take_profit_orders[symbol]), NoLevels for a missing key
    venue                \* per symbol, what the venue holds: the position and the
                         \* numbers of live stop and take-profit orders

gwVars == <<now, last_api_call_time, max_retries, lock, lock_waiters, pc, attempt,
            wake, received, call_owner, responses, attempts_made, sleeps, raised>>

poolVars == <<current_time, max_pool_size, targets, score, price_change_24h,
              attempt_failures, success_history, evicted, top>>

riskVars == <<clock, protection_mode, protection_reason, protection_start_time,
              balances, initial_balance, peak_balance, drawdown, open_positions,
              daily_pnl, limits, sizing, recorded>>

pmVars == <<position_lock, pm_pc, pm_frame, active_trades, stop_orders, orders,
            submitted, take_profit_orders, venue>>

\* The leverage cache of the gateway and the venue's setting behind it.
leverageVars == <<leverage_cache, venue_leverage>>

vars == <<gwVars, leverageVars, poolVars, riskVars, pmVars>>

\* Variables that the gateway actions never touch.
nonGwVars == <<leverageVars, poolVars, riskVars, pmVars>>

\* Variables that the pool actions never touch.
nonPoolVars == <<gwVars, leverageVars, riskVars, pmVars>>

\* Variables that the actions of the risk manager never touch.
nonRiskVars == <<gwVars, leverageVars, poolVars, pmVars>>

\* Variables that the actions of the position manager never touch, apart
\* from the risk manager's, which each of them lists.
nonPmVars == <<gwVars, leverageVars, poolVars>>

-----------------------------------------------------------------------------
(***************************************************************************)
(* Part 1: ExchangeGateway                                                 *)
(***************************************************************************)

\* The cooperating loops of the bot that issue gateway calls.
Tasks == {"main_loop", "position_monitor_loop"}
NoTask == "none"

\* Largest max_retries the model is started with.
MaxRetriesBound == 3

\* self.min_time_between_calls = 0.05 s, two ticks of 25 ms.
MinTimeBetweenCalls == 2
TicksPerSecond == 20 * MinTimeBetweenCalls

\* Venue error codes the retry loop distinguishes.
CodeTimestamp == -1021
CodeRecvWindow == -1022
CodeRateLimit == -1003
CodeInsufficientBalance == -2010
CodeUnknownOrder == -2011
CodeInvalidSymbol == -1121
\* A venue error code with no branch of its own (-1000, UNKNOWN).
CodeOther == -1000

ClockSkewCodes == {CodeTimestamp, CodeRecvWindow}
FailFastCodes == {CodeInsufficientBalance, CodeUnknownOrder, CodeInvalidSymbol}
ApiErrorCodes == ClockSkewCodes \cup FailFastCodes \cup {CodeRateLimit, CodeOther}

\* What one attempt can come back with: a result, a BinanceAPIException
\* carrying a code, or any other exception raised by the executor call.
Ok == [kind |-> "result", code |-> 0]
OtherException == [kind |-> "Exception", code |-> 0]
ApiException(c) == [kind |-> "BinanceAPIException", code |-> c]
Responses == {Ok, OtherException} \cup {ApiException(c) : c \in ApiErrorCodes}

\* What a caller can get back: a result, None, or an error of exceptions.py.
Pending == "pending"
Result == "Result"
None == "None"
ErrorKinds == {"CustomError", "NetworkError", "APIError", "AccountError", "InputError"}

\* exception_handler: the decorator around api_retry and around every
\* gateway method.  e is the class of the exception leaving the wrapped
\* function; the wrapper's except clauses are tried in order.  The error
\* classes of exceptions.py derive from Exception only, so they match none
\* of the first two clauses.
ExceptionHandler(e) ==
    IF e \in {"BinanceAPIException", "ClientError"} THEN "NetworkError"
    ELSE IF e \in {"JSONDecodeError", "ValueError", "TypeError"} THEN "InputError"
    ELSE "CustomError"

\* timer_decorator re-raises what the wrapped function raised.
TimerDecorator(e) == e

\* RetryDecision with the unknown-order branch lost: the code falls to the
\* generic backoff branch.
RetryDecisionUnknownOrderRetried(a, maxr, r) ==
    IF r.kind = "result" THEN [do |-> "return", wait |-> 0, error |-> None]
    ELSE IF r.kind = "BinanceAPIException" THEN
        IF r.code \in {CodeTimestamp, CodeRecvWindow}
            THEN [do |-> "retry", wait |-> 0, error |-> None]
        ELSE IF r.code = CodeRateLimit
            THEN [do |-> "sleep", wait |-> (2 ^ a) * 2, error |-> None]
        ELSE IF r.code = CodeInsufficientBalance
            THEN [do |-> "raise", wait |-> 0, error |-> "AccountError"]
        ELSE IF r.code = CodeInvalidSymbol
            THEN [do |-> "raise", wait |-> 0, error |-> "InputError"]
        ELSE IF a < maxr
            THEN [do |-> "sleep", wait |-> 2 ^ a, error |-> None]
        ELSE [do |-> "raise", wait |-> 0, error |-> "APIError"]
    ELSE IF a < maxr
        THEN [do |-> "sleep", wait |-> 2 ^ a, error |-> None]
    ELSE [do |-> "raise", wait |-> 0, error |-> "CustomError"]

\* One pass through the body of the retry loop once the attempt has been
\* answered with r: what the loop does next.
\*   return : the result is returned           raise : error is raised
\*   retry  : "continue", next iteration       sleep : asyncio.sleep(wait)
RetryDecision(a, maxr, r) ==
    IF r.kind = "result" THEN [do |-> "return", wait |-> 0, error |-> None]
    ELSE IF r.kind = "BinanceAPIException" THEN
        IF r.code \in {CodeTimestamp, CodeRecvWindow}
            THEN [do |-> "retry", wait |-> 0, error |-> None]
        ELSE IF r.code = CodeRateLimit
            THEN [do |-> "sleep", wait |-> (2 ^ a) * 2, error |-> None]
        ELSE IF r.code = CodeInsufficientBalance
            THEN [do |-> "raise", wait |-> 0, error |-> "AccountError"]
        ELSE IF r.code = CodeUnknownOrder
            THEN [do |-> "raise", wait |-> 0, error |-> "APIError"]
        ELSE IF r.code = CodeInvalidSymbol
            THEN [do |-> "raise", wait |-> 0, error |-> "InputError"]
        ELSE IF a < maxr
            THEN [do |-> "sleep", wait |-> 2 ^ a, error |-> None]
        ELSE [do |-> "raise", wait |-> 0, error |-> "APIError"]
    ELSE IF a < maxr
        THEN [do |-> "sleep", wait |-> 2 ^ a, error |-> None]
    ELSE [do |-> "raise", wait |-> 0, error |-> "CustomError"]

\* Rate gate at the head of api_retry: how long the call sleeps before it
\* goes for the lock (0: no sleep).
RateLimitDelay(t_now, t_last) ==
    IF t_now - t_last < MinTimeBetweenCalls
        THEN MinTimeBetweenCalls - (t_now - t_last)
        ELSE 0

InCall == {"in_flight", "backoff"}

GwTypeOK ==
    /\ now \in Nat
    /\ last_api_call_time \in Nat
    /\ max_retries \in 1..MaxRetriesBound
    /\ lock \in Tasks \cup {NoTask}
    /\ pc \in [Tasks -> {"idle", "rate_sleep", "wait_lock", "in_flight", "backoff", "done"}]
    /\ attempt \in [Tasks -> Nat]
    /\ received \in [Tasks -> {Pending, Result, None} \cup ErrorKinds]
    /\ raised \in {None} \cup ErrorKinds

GwInit ==
    /\ now = MinTimeBetweenCalls
    /\ last_api_call_time = 0
    /\ max_retries \in 1..MaxRetriesBound
    /\ lock = NoTask
    /\ lock_waiters = <<>>
    /\ pc = [t \in Tasks |-> "idle"]
    /\ attempt = [t \in Tasks |-> 0]
    /\ wake = [t \in Tasks |-> 0]
    /\ received = [t \in Tasks |-> Pending]
    /\ call_owner = NoTask
    /\ responses = <<>>
    /\ attempts_made = 0
    /\ sleeps = <<>>
    /\ raised = None

\* EnterLock without the mutual exclusion: the section is entered whether
\* or not another task is in it.
EnterLockUnguarded(t) ==
    /\ lock' = t
    /\ pc' = [pc EXCEPT ![t] = "in_flight"]
    /\ attempt' = [attempt EXCEPT ![t] = 1]
    /\ call_owner' = t
    /\ responses' = <<>>
    /\ attempts_made' = 1
    /\ sleeps' = <<>>
    /\ raised' = None
    /\ UNCHANGED lock_waiters

\* "async with self._lock" followed by the first pass of the loop up to
\* its await: the lock is taken at once when it is free and nobody queues
\* for it, else the task queues.
EnterLock(t) ==
    IF lock = NoTask /\ lock_waiters = <<>>
    THEN /\ lock' = t
         /\ pc' = [pc EXCEPT ![t] = "in_flight"]
         /\ attempt' = [attempt EXCEPT ![t] = 1]
         /\ call_owner' = t
         /\ responses' = <<>>
         /\ attempts_made' = 1
         /\ sleeps' = <<>>
         /\ raised' = None
         /\ UNCHANGED lock_waiters
    ELSE /\ lock_waiters' = Append(lock_waiters, t)
         /\ pc' = [pc EXCEPT ![t] = "wait_lock"]
         /\ UNCHANGED <<lock, attempt, call_owner, responses, attempts_made,
                        sleeps, raised>>

\* api_retry up to its first suspension: the rate gate, then the lock.
ApiRetryEnter(t) ==
    /\ pc[t] = "idle"
    /\ LET d == RateLimitDelay(now, last_api_call_time) IN
        IF d > 0
        THEN /\ pc' = [pc EXCEPT ![t] = "rate_sleep"]
             /\ wake' = [wake EXCEPT ![t] = now + d]
             /\ UNCHANGED <<lock, lock_waiters, attempt, call_owner, responses,
                            attempts_made, sleeps, raised>>
        ELSE /\ EnterLock(t)
             /\ UNCHANGED wake
    /\ UNCHANGED <<now, last_api_call_time, max_retries, received>>
    /\ UNCHANGED nonGwVars

\* The rate-gate sleep is over.
RateLimitWake(t) ==
    /\ pc[t] = "rate_sleep"
    /\ now >= wake[t]
    /\ EnterLock(t)
    /\ UNCHANGED <<now, last_api_call_time, max_retries, wake, received>>
    /\ UNCHANGED nonGwVars

\* The lock was released and the first waiter gets it.
LockAcquired(t) ==
    /\ pc[t] = "wait_lock"
    /\ lock = NoTask
    /\ lock_waiters # <<>>
    /\ Head(lock_waiters) = t
    /\ lock' = t
    /\ lock_waiters' = Tail(lock_waiters)
    /\ pc' = [pc EXCEPT ![t] = "in_flight"]
    /\ attempt' = [attempt EXCEPT ![t] = 1]
    /\ call_owner' = t
    /\ responses' = <<>>
    /\ attempts_made' = 1
    /\ sleeps' = <<>>
    /\ raised' = None
    /\ UNCHANGED <<now, last_api_call_time, max_retries, wake, received>>
    /\ UNCHANGED nonGwVars

\* The call leaves the lock section and api_retry: the caller gets got.
LeaveCall(t, got) ==
    /\ lock' = NoTask
    /\ pc' = [pc EXCEPT ![t] = "done"]
    /\ received' = [received EXCEPT ![t] = got]

\* The loop goes to its next iteration, or ends when attempt was the last
\* one: the function body then ends without a return statement.
NextIteration(t) ==
    IF attempt[t] < max_retries
    THEN /\ attempt' = [attempt EXCEPT ![t] = attempt[t] + 1]
         /\ attempts_made' = attempts_made + 1
         /\ pc' = [pc EXCEPT ![t] = "in_flight"]
         /\ UNCHANGED <<lock, received>>
    ELSE /\ LeaveCall(t, None)
         /\ UNCHANGED <<attempt, attempts_made>>

\* The venue answers the attempt in flight with r.
AttemptAnswered(t, r) ==
    /\ pc[t] = "in_flight"
    /\ responses' = Append(responses, r)
    /\ LET d == RetryDecision(attempt[t], max_retries, r) IN
        CASE d.do = "return" ->
                /\ last_api_call_time' = now
                /\ LeaveCall(t, Result)
                /\ UNCHANGED <<attempt, attempts_made, wake, sleeps, raised>>
          [] d.do = "raise" ->
                /\ raised' = d.error
                /\ LeaveCall(t, ExceptionHandler(TimerDecorator(d.error)))
                /\ UNCHANGED <<last_api_call_time, attempt, attempts_made, wake, sleeps>>
          [] d.do = "retry" ->
                /\ NextIteration(t)
                /\ UNCHANGED <<last_api_call_time, wake, sleeps, raised>>
          [] d.do = "sleep" ->
                /\ pc' = [pc EXCEPT ![t] = "backoff"]
                /\ wake' = [wake EXCEPT ![t] = now + d.wait * TicksPerSecond]
                /\ sleeps' = Append(sleeps, d.wait)
                /\ UNCHANGED <<last_api_call_time, lock, attempt, attempts_made,
                               received, raised>>
    /\ UNCHANGED <<now, max_retries, lock_waiters, call_owner>>
    /\ UNCHANGED nonGwVars

\* The backoff sleep is over.
BackoffWake(t) ==
    /\ pc[t] = "backoff"
    /\ now >= wake[t]
    /\ NextIteration(t)
    /\ UNCHANGED <<now, last_api_call_time, max_retries, lock_waiters, wake,
                   call_owner, responses, sleeps, raised>>
    /\ UNCHANGED nonGwVars

\* Time passes.  Only instants the program can tell apart are visited: a
\* single tick while the rate gate is still closed, or a jump to the next
\* pending wake-up.  The venue answers an attempt within the tick in which
\* it was sent.
Tick ==
    /\ now < last_api_call_time + MinTimeBetweenCalls
    /\ now' = now + 1
    /\ UNCHANGED <<last_api_call_time, max_retries, lock, lock_waiters, pc, attempt,
                   wake, received, call_owner, responses, attempts_made,
                   sleeps, raised>>
    /\ UNCHANGED nonGwVars

Sleepers == {t \in Tasks : pc[t] \in {"rate_sleep", "backoff"} /\ wake[t] > now}

Advance ==
    /\ Sleepers # {}
    /\ now' = CHOOSE w \in {wake[t] : t \in Sleepers} :
                  \A t \in Sleepers : w <= wake[t]
    /\ UNCHANGED <<last_api_call_time, max_retries, lock, lock_waiters, pc, attempt,
                   wake, received, call_owner, responses, attempts_made,
                   sleeps, raised>>
    /\ UNCHANGED nonGwVars

NextGateway ==
    \/ \E t \in Tasks : ApiRetryEnter(t)
    \/ \E t \in Tasks : RateLimitWake(t)
    \/ \E t \in Tasks : LockAcquired(t)
    \/ \E t \in Tasks, r \in Responses : AttemptAnswered(t, r)
    \/ \E t \in Tasks : BackoffWake(t)
    \/ Tick
    \/ Advance

-----------------------------------------------------------------------------
(***************************************************************************)
(* Gateway claims                                                          *)
(***************************************************************************)

IsApiCode(r, codes) == r.kind = "BinanceAPIException" /\ r.code \in codes

\* The call recorded in the log has ended.
CallEnded == call_owner # NoTask /\ pc[call_owner] = "done"

\* C1: a call whose first attempt is answered with -2010, -1121 or -2011
\* has ended with an error after exactly one attempt and without any
\* backoff sleep, whatever max_retries is.
C1_FailFastSingleAttempt ==
    (responses # <<>> /\ IsApiCode(responses[1], FailFastCodes)) =>
        /\ CallEnded
        /\ attempts_made = 1
        /\ Len(responses) = 1
        /\ sleeps = <<>>
        /\ raised \in ErrorKinds
        /\ received[call_owner] \in ErrorKinds

C1_Witness ==
    /\ CallEnded
    /\ max_retries = MaxRetriesBound
    /\ responses = <<ApiException(CodeUnknownOrder)>>
    /\ attempts_made = 1
    /\ received[call_owner] \in ErrorKinds

\* What the caller of api_retry is entitled to for a fail-fast code.
ClassOfCode(c) ==
    IF c = CodeInsufficientBalance THEN "AccountError"
    ELSE IF c = CodeInvalidSymbol THEN "InputError"
    ELSE "APIError"

\* What the caller of an order method (create_market_order, ...) receives:
\* the method is wrapped in exception_handler too.
OrderMethodReceived(t) ==
    IF received[t] \in ErrorKinds THEN ExceptionHandler(received[t]) ELSE received[t]

\* C2: the error the caller of api_retry (and of an order method built on
\* it) receives for -2010 is AccountError, for -1121 InputError, for -2011
\* APIError.
C2_ClassificationKept ==
    (CallEnded /\ IsApiCode(responses[Len(responses)], FailFastCodes)) =>
        /\ received[call_owner] = ClassOfCode(responses[Len(responses)].code)
        /\ OrderMethodReceived(call_owner) = ClassOfCode(responses[Len(responses)].code)

\* A response that the claim calls retryable: an API error code that is
\* neither fail-fast nor clock-skew, or a non-domain exception.
Retryable(r) ==
    \/ r.kind = "Exception"
    \/ IsApiCode(r, ApiErrorCodes \ (FailFastCodes \cup ClockSkewCodes))

\* C3: a call all of whose attempts were answered with a retryable error
\* made exactly max_retries attempts, slept at least 2^k seconds after the
\* failed attempt k, and failed with APIError (last answer an API error)
\* or CustomError (last answer a non-domain exception).
C3_RetryableExhausts ==
    (CallEnded /\ \A k \in 1..Len(responses) : Retryable(responses[k])) =>
        /\ attempts_made = max_retries
        /\ Len(responses) = max_retries
        /\ \A k \in 1..(max_retries - 1) : k <= Len(sleeps) /\ sleeps[k] >= 2 ^ k
        /\ raised = IF responses[Len(responses)].kind = "Exception"
                        THEN "CustomError" ELSE "APIError"

\* C4: a call that has ended either returned the result of a successful
\* attempt or failed with a typed error.
C4_ResultOrTypedError ==
    \A t \in Tasks :
        pc[t] = "done" => (received[t] = Result \/ received[t] \in ErrorKinds)

\* C5: at most one task is between the first attempt and the end of its
\* call, that task holds the lock, and the attempts and sleeps logged are
\* its own.
C5_GatewayMutualExclusion ==
    /\ Cardinality({t \in Tasks : pc[t] \in InCall}) <= 1
    /\ \A t \in Tasks : pc[t] \in InCall => (lock = t /\ call_owner = t)

C5_Witness ==
    \E t, u \in Tasks :
        /\ t # u
        /\ pc[t] = "backoff"
        /\ pc[u] = "wait_lock"
        /\ Len(sleeps) >= 1

\* C6: the first attempt of a call starts no sooner than
\* min_time_between_calls after the previous successful call returned.
C6_MinIntervalBeforeFirstAttempt ==
    [][\A t \in Tasks :
          (pc[t] \notin InCall /\ pc'[t] = "in_flight" /\ last_api_call_time > 0) =>
              now' >= last_api_call_time + MinTimeBetweenCalls]_vars

-----------------------------------------------------------------------------
(***************************************************************************)
(* Part 2: OpportunityPool                                                 *)
(*                                                                         *)
(* Scores are Python floats; the model keeps them as integers in units of  *)
(* 1/ScoreUnit, rounding down after each multiplication.                   *)
(***************************************************************************)

Symbols == {"BTCUSDT", "ETHUSDT", "BNBUSDT"}

\* Largest capacity (max_pool_size) the pool is constructed with.
MaxPoolSize == 2

ScoreUnit == 10 ^ 3
MaxScore == 100 * ScoreUnit

\* Seconds: cooldown per recorded failure and its cap (is_symbol_cooling_down).
CoolingStep == 300
CoolingCap == 3600
\* Seconds: the two ages of a failure calculate_opportunity_score tells apart.
PenaltyWindow == 3600
PenaltyWindowLong == 7200

Min2(a, b) == IF a < b THEN a ELSE b
Max2(a, b) == IF a > b THEN a ELSE b
Abs(x) == IF x < 0 THEN -x ELSE x

SeqToSet(q) == {q[i] : i \in 1..Len(q)}

RECURSIVE SumOver(_, _)
SumOver(f, S) ==
    IF S = {} THEN 0
    ELSE LET x == CHOOSE y \in S : TRUE IN f[x] + SumOver(f, S \ {x})

\* q without its i-th element.
RemoveAt(q, i) == [j \in 1..(Len(q) - 1) |-> IF j < i THEN q[j] ELSE q[j + 1]]

\* sorted(items, key=score): ascending and stable, as Python's sort is.
RECURSIVE SortedAscending(_, _)
SortedAscending(q, sc) ==
    IF q = <<>> THEN <<>>
    ELSE LET i == CHOOSE i \in 1..Len(q) :
                      \A j \in 1..Len(q) :
                          \/ sc[q[i]] < sc[q[j]]
                          \/ (sc[q[i]] = sc[q[j]] /\ i <= j)
         IN <<q[i]>> \o SortedAscending(RemoveAt(q, i), sc)

\* sorted(items, key=score, reverse=True): descending, equal keys keep
\* their original order.
RECURSIVE SortedDescending(_, _)
SortedDescending(q, sc) ==
    IF q = <<>> THEN <<>>
    ELSE LET i == CHOOSE i \in 1..Len(q) :
                      \A j \in 1..Len(q) :
                          \/ sc[q[i]] > sc[q[j]]
                          \/ (sc[q[i]] = sc[q[j]] /\ i <= j)
         IN <<q[i]>> \o SortedDescending(RemoveAt(q, i), sc)

\* The removal count with the capacity check lost by one.
ToRemoveOffByOne(n, cap) == IF n > cap + 1 THEN n - cap ELSE 0

\* How many entries add_or_update_target deletes from a pool of n entries.
ToRemove(n, cap) == IF n > cap THEN n - cap ELSE 0

\* The eviction order reversed: the highest scores come first.
EvictionOrderHighestFirst(q, sc) == SortedDescending(q, sc)

\* sorted_targets of add_or_update_target: the order in which entries are
\* taken for removal.
EvictionOrder(q, sc) == SortedAscending(q, sc)

\* add_or_update_target(symbol, {'score': new_score, ...}): the pool after
\* the call and the entries it deleted.
Upsert(tg, sc, symbol, new_score, cap) ==
    LET tg1 == IF symbol \in SeqToSet(tg) THEN tg ELSE Append(tg, symbol)
        sc1 == [sc EXCEPT ![symbol] = new_score]
        order == EvictionOrder(tg1, sc1)
        n == ToRemove(Len(tg1), cap)
        gone == {order[i] : i \in 1..n}
    IN [targets |-> SelectSeq(tg1, LAMBDA x : x \notin gone),
        score |-> [x \in Symbols |-> IF x \in gone THEN 0 ELSE sc1[x]],
        evicted |-> [i \in 1..n |-> [symbol |-> order[i], score |-> sc1[order[i]]]]]

\* Price-move component of the opportunity score.
PriceChangeScore(price_change) ==
    IF Abs(price_change) > 10 THEN 20
    ELSE IF Abs(price_change) > 5 THEN 15
    ELSE IF Abs(price_change) > 2 THEN 10
    ELSE 5

VolatilityBonus(volatility_score) ==
    IF volatility_score > 3 THEN 10
    ELSE IF volatility_score > 2 THEN 5
    ELSE 0

\* cooling_factor, in percent.
CoolingFactor(symbol) ==
    LET f == attempt_failures[symbol]
        time_since_failure == current_time - f.last_failure
    IN IF f.count = 0 THEN 100
       ELSE IF time_since_failure < PenaltyWindow THEN Max2(30, 100 - f.count * 10)
       ELSE IF time_since_failure < PenaltyWindowLong THEN Max2(60, 100 - f.count * 5)
       ELSE 100

\* success_factor, in percent.
SuccessFactor(symbol) ==
    IF success_history[symbol] = 0 THEN 100
    ELSE Min2(150, 100 + success_history[symbol] * 5)

\* The final clamp of calculate_opportunity_score.
ClampScore(x) == Max2(0, Min2(MaxScore, x))

\* calculate_opportunity_score.  technical_score is the mean of the five
\* indicator sub-scores (0: no technical data); the indicators themselves
\* come from the indicator library.
CalculateOpportunityScore(symbol, price_change, volatility_score, technical_score) ==
    LET base == (50 + PriceChangeScore(price_change) + VolatilityBonus(volatility_score))
                    * ScoreUnit
        blended == IF technical_score > 0
                       THEN (base + technical_score * ScoreUnit) \div 2
                       ELSE base
        final == (blended * CoolingFactor(symbol) * SuccessFactor(symbol)) \div (100 * 100)
    IN ClampScore(final)

\* cooling_period of is_symbol_cooling_down.
CoolingPeriod(failure_count) == Min2(CoolingCap, failure_count * CoolingStep)

\* The cooldown test with the boundary instant counted as cooling.
IsSymbolCoolingDownInclusive(symbol) ==
    /\ attempt_failures[symbol].count > 0
    /\ current_time - attempt_failures[symbol].last_failure
           <= CoolingPeriod(attempt_failures[symbol].count)

IsSymbolCoolingDown(symbol) ==
    /\ attempt_failures[symbol].count > 0
    /\ current_time - attempt_failures[symbol].last_failure
           < CoolingPeriod(attempt_failures[symbol].count)

\* The listing without the sort: the first count available entries in pool order.
TopTargetsUnsorted(count, exclude_cooling) ==
    LET available == SelectSeq(targets,
                         LAMBDA x : ~(exclude_cooling /\ IsSymbolCoolingDown(x)))
    IN SubSeq(available, 1, Min2(count, Len(available)))

\* Return value of get_top_targets(count, exclude_cooling).
TopTargets(count, exclude_cooling) ==
    LET available == SelectSeq(targets,
                         LAMBDA x : ~(exclude_cooling /\ IsSymbolCoolingDown(x)))
        sorted == SortedDescending(available, score)
    IN SubSeq(sorted, 1, Min2(count, Len(sorted)))

NotCalled == [called |-> FALSE, count |-> 0, exclude_cooling |-> FALSE, result |-> <<>>]

PoolInit ==
    /\ current_time = 0
    /\ max_pool_size \in 1..MaxPoolSize
    /\ targets = <<>>
    /\ score = [s \in Symbols |-> 0]
    /\ price_change_24h = [s \in Symbols |-> 0]
    /\ attempt_failures = [s \in Symbols |-> [count |-> 0, last_failure |-> 0]]
    /\ success_history = [s \in Symbols |-> 0]
    /\ evicted = <<>>
    /\ top = NotCalled

\* One symbol's pass through the loop of refresh_targets_data: the score is
\* computed and the entry upserted.
RefreshTarget(symbol, price_change, volatility_score, technical_score) ==
    /\ LET r == Upsert(targets, score, symbol,
                       CalculateOpportunityScore(symbol, price_change,
                                                 volatility_score, technical_score),
                       max_pool_size)
       IN /\ targets' = r.targets
          /\ score' = r.score
          /\ price_change_24h' =
                 [x \in Symbols |-> IF x = symbol /\ x \in SeqToSet(r.targets)
                                       THEN price_change
                                    ELSE IF x \in SeqToSet(r.targets)
                                       THEN price_change_24h[x]
                                    ELSE 0]
          /\ evicted' = r.evicted
    /\ top' = NotCalled
    /\ UNCHANGED <<current_time, max_pool_size, attempt_failures, success_history>>
    /\ UNCHANGED nonPoolVars

RecordAttemptFailure(symbol) ==
    /\ attempt_failures' = [attempt_failures EXCEPT ![symbol] =
           [count |-> @.count + 1, last_failure |-> current_time]]
    /\ score' = IF symbol \in SeqToSet(targets)
                THEN [score EXCEPT ![symbol] =
                         (@ * (100 - Min2(50, attempt_failures'[symbol].count * 10))) \div 100]
                ELSE score
    /\ evicted' = <<>>
    /\ top' = NotCalled
    /\ UNCHANGED <<current_time, max_pool_size, targets, success_history, price_change_24h>>
    /\ UNCHANGED nonPoolVars

RecordSuccess(symbol) ==
    /\ success_history' = [success_history EXCEPT ![symbol] = @ + 1]
    /\ score' = IF symbol \in SeqToSet(targets)
                THEN [score EXCEPT ![symbol] =
                         (@ * (100 + Min2(30, success_history'[symbol] * 5))) \div 100]
                ELSE score
    /\ evicted' = <<>>
    /\ top' = NotCalled
    /\ UNCHANGED <<current_time, max_pool_size, targets, attempt_failures, price_change_24h>>
    /\ UNCHANGED nonPoolVars

GetTopTargets(count, exclude_cooling) ==
    /\ top' = [called |-> TRUE, count |-> count, exclude_cooling |-> exclude_cooling,
               result |-> TopTargets(count, exclude_cooling)]
    /\ evicted' = <<>>
    /\ UNCHANGED <<current_time, max_pool_size, targets, score, attempt_failures,
                   success_history, price_change_24h>>
    /\ UNCHANGED nonPoolVars

\* The clock moves on by d seconds.
PoolAdvance(d) ==
    /\ current_time' = current_time + d
    /\ evicted' = <<>>
    /\ top' = NotCalled
    /\ UNCHANGED <<max_pool_size, targets, score, attempt_failures, success_history,
                   price_change_24h>>
    /\ UNCHANGED nonPoolVars

-----------------------------------------------------------------------------
(***************************************************************************)
(* Part 3: RiskManager                                                     *)
(*                                                                         *)
(* Money is in whole USDT, time in seconds.  Percentages kept in a field   *)
(* (drawdown) are in units of 1/PctUnit percent; percentages that are only *)
(* compared with a threshold are compared exactly, by cross-multiplying.   *)
(***************************************************************************)

PctUnit == 10 ^ 2
NoTime == -1

\* StrategyParams, as config.py sets them.
max_drawdown == 10
max_account_risk == 5
static_sl_percent == 2
profit_threshold_daily == 3
loss_threshold_daily == 5

\* StrategyParams max_open_positions and max_daily_trades of the model.
MaxOpenPositions == 2
MaxDailyTrades == 2

\* Thresholds of detect_market_anomalies and _should_exit_protection_mode.
VolatilityThreshold == 3
ChangeRateThreshold == 300
RapidDrawdown == 5
ExitDrawdown == 3
ExitAfter == 7200
HoursPerDay == 24

\* One entry of self.open_positions, as get_open_positions builds it.
Position(symbol, side, amount, entry_price, mark_price, leverage) ==
    [symbol |-> symbol, side |-> side, amount |-> amount,
     entry_price |-> entry_price, mark_price |-> mark_price, leverage |-> leverage]

\* What the venue may hold: the third entry carries a leverage field of 0.
PositionBook ==
    << Position("BTCUSDT", "LONG", 1, 100, 100, 5),
       Position("ETHUSDT", "SHORT", -3, 50, 50, 5),
       Position("BNBUSDT", "LONG", 1, 10, 10, 0) >>

\* The listings get_open_positions may return ([] also on failure).
Listings ==
    { SelectSeq(PositionBook, LAMBDA p : p.symbol \in S) : S \in SUBSET Symbols }

SymbolsOf(positions) == { positions[i].symbol : i \in 1..Len(positions) }

\* RiskManager.get_total_balance and get_available_balance.
GetTotalBalance == balances.total
GetAvailableBalance == balances.available

RECURSIVE LeverageProduct(_)
LeverageProduct(positions) ==
    IF positions = <<>> THEN 1
    ELSE Head(positions).leverage * LeverageProduct(Tail(positions))

RECURSIVE RiskNumerator(_, _)
RiskNumerator(positions, common) ==
    IF positions = <<>> THEN 0
    ELSE LET pos == Head(positions)
         IN Abs(pos.amount * pos.mark_price) * 100 * (common \div pos.leverage)
                + RiskNumerator(Tail(positions), common)

\* _calculate_total_account_risk: the sum of
\* position_value / (total_balance * leverage) * 100 as the exact fraction
\* num/den; raised stands for the ZeroDivisionError of a leverage of 0.
CalculateTotalAccountRisk ==
    LET total_balance == GetTotalBalance
    IN IF total_balance <= 0
       THEN [raised |-> FALSE, num |-> 0, den |-> 1]
       ELSE IF \E i \in 1..Len(open_positions) : open_positions[i].leverage = 0
       THEN [raised |-> TRUE, num |-> 0, den |-> 1]
       ELSE LET common == LeverageProduct(open_positions)
            IN [raised |-> FALSE,
                num |-> RiskNumerator(open_positions, common),
                den |-> total_balance * common]

\* The daily-trade check with the bound itself let through.
CheckRiskLimitsCountOffByOne ==
    IF protection_mode THEN [value |-> FALSE, raised |-> FALSE]
    ELSE IF drawdown > max_drawdown * PctUnit THEN [value |-> FALSE, raised |-> FALSE]
    ELSE IF Len(open_positions) >= MaxOpenPositions THEN [value |-> FALSE, raised |-> FALSE]
    ELSE IF daily_pnl.trade_count > MaxDailyTrades THEN [value |-> FALSE, raised |-> FALSE]
    ELSE IF initial_balance > 0
            /\ daily_pnl.total_pnl * 100 > profit_threshold_daily * initial_balance
         THEN [value |-> FALSE, raised |-> FALSE]
    ELSE IF initial_balance > 0
            /\ daily_pnl.total_pnl * 100 < (- loss_threshold_daily) * initial_balance
         THEN [value |-> FALSE, raised |-> FALSE]
    ELSE LET account_risk == CalculateTotalAccountRisk
         IN IF account_risk.raised THEN [value |-> FALSE, raised |-> TRUE]
            ELSE IF account_risk.num > max_account_risk * account_risk.den
                 THEN [value |-> FALSE, raised |-> FALSE]
                 ELSE [value |-> TRUE, raised |-> FALSE]

\* check_risk_limits: the return value, and whether the body raised.
CheckRiskLimits ==
    IF protection_mode THEN [value |-> FALSE, raised |-> FALSE]
    ELSE IF drawdown > max_drawdown * PctUnit THEN [value |-> FALSE, raised |-> FALSE]
    ELSE IF Len(open_positions) >= MaxOpenPositions THEN [value |-> FALSE, raised |-> FALSE]
    ELSE IF daily_pnl.trade_count >= MaxDailyTrades THEN [value |-> FALSE, raised |-> FALSE]
    ELSE IF initial_balance > 0
            /\ daily_pnl.total_pnl * 100 > profit_threshold_daily * initial_balance
         THEN [value |-> FALSE, raised |-> FALSE]
    ELSE IF initial_balance > 0
            /\ daily_pnl.total_pnl * 100 < (- loss_threshold_daily) * initial_balance
         THEN [value |-> FALSE, raised |-> FALSE]
    ELSE LET account_risk == CalculateTotalAccountRisk
         IN IF account_risk.raised THEN [value |-> FALSE, raised |-> TRUE]
            ELSE IF account_risk.num > max_account_risk * account_risk.den
                 THEN [value |-> FALSE, raised |-> FALSE]
                 ELSE [value |-> TRUE, raised |-> FALSE]

\* _calculate_position_change_rate from the number of entries opened in the
\* last hour and in the last day, in percent.
PositionChangeRate(recent_positions, day_positions) ==
    Max2(0, IF day_positions > 0
            THEN (recent_positions * HoursPerDay * 100) \div day_positions - 100
            ELSE recent_positions * 100 - 100)

\* _is_rapid_drawdown.
IsRapidDrawdown == drawdown > RapidDrawdown * PctUnit

\* The exit test with the drawdown bound of the entry test.
ShouldExitProtectionModeLoose ==
    /\ protection_mode
    /\ protection_start_time # NoTime
    /\ \/ clock - protection_start_time > ExitAfter
       \/ drawdown < RapidDrawdown * PctUnit

\* _should_exit_protection_mode.
ShouldExitProtectionMode ==
    /\ protection_mode
    /\ protection_start_time # NoTime
    /\ \/ clock - protection_start_time > ExitAfter
       \/ drawdown < ExitDrawdown * PctUnit

NotChecked == [called |-> FALSE, value |-> FALSE, raised |-> FALSE]
NotSized == [called |-> FALSE]
NoReason == ""

\* Balance of the account when initialize() ran: 0 if the fetch failed.
InitialBalances == {0, 1000}

\* RiskManager after __init__ and initialize().
RiskInit ==
    /\ clock = 0
    /\ protection_mode = FALSE
    /\ protection_reason = NoReason
    /\ protection_start_time = NoTime
    /\ initial_balance \in InitialBalances
    /\ balances = [total |-> initial_balance, available |-> initial_balance]
    /\ peak_balance = initial_balance
    /\ drawdown = 0
    /\ open_positions = <<>>
    /\ daily_pnl = [total_pnl |-> 0, trade_count |-> 0]
    /\ limits = NotChecked
    /\ sizing = NotSized
    /\ recorded = <<>>

\* Trades update_account_info records for a new listing: one per symbol that
\* appeared (MANUAL_OPEN) and one per symbol that vanished (MANUAL_CLOSE).
ManualTrades(listing) ==
    Cardinality(SymbolsOf(listing) \ SymbolsOf(open_positions))
        + Cardinality(SymbolsOf(open_positions) \ SymbolsOf(listing))

\* The presentation sink (self.ui) as a call of log_activity finds it.
Sinks == {"absent", "works", "raises"}

\* One entry of self.position_history.
LedgerEntry(type, symbol, pnl) == [type |-> type, symbol |-> symbol, pnl |-> pnl]

RECURSIVE ManualEntriesOf(_, _, _)
ManualEntriesOf(positions, others, type) ==
    IF positions = <<>> THEN <<>>
    ELSE (IF Head(positions).symbol \in SymbolsOf(others) THEN <<>>
          ELSE << LedgerEntry(type, Head(positions).symbol, 0) >>)
             \o ManualEntriesOf(Tail(positions), others, type)

\* The entries update_account_info records for a new listing, in the order
\* of its two loops.
ManualEntries(previous_positions, listing) ==
    ManualEntriesOf(listing, previous_positions, "MANUAL_OPEN")
        \o ManualEntriesOf(previous_positions, listing, "MANUAL_CLOSE")

\* update_account_info with the venue answering total_balance and listing,
\* no other task running between its two queries.  Each manual entry is
\* followed by a call of the sink; a sink that raises ends the try block.
UpdateAccountInfo(total_balance, listing, sink) ==
    LET entries == ManualEntries(open_positions, listing)
        sink_raised == sink = "raises" /\ entries # <<>>
        logged == IF sink_raised THEN << Head(entries) >> ELSE entries
    IN
    /\ balances' = [total |-> total_balance, available |-> total_balance]
    /\ open_positions' = listing
    /\ recorded' = logged
    /\ daily_pnl' = [daily_pnl EXCEPT !.trade_count = @ + Len(logged)]
    /\ peak_balance' = IF sink_raised THEN peak_balance
                       ELSE Max2(peak_balance, total_balance)
    /\ drawdown' = IF ~sink_raised /\ peak_balance' > 0
                   THEN ((peak_balance' - total_balance) * 100 * PctUnit) \div peak_balance'
                   ELSE drawdown
    /\ limits' = NotChecked
    /\ UNCHANGED <<clock, protection_mode, protection_reason, protection_start_time,
                   initial_balance, sizing>>
    /\ UNCHANGED <<nonRiskVars>>

\* record_trade for a closing trade (CLOSE, SL or TP) with its pnl.
RecordClosingTrade(pnl) ==
    /\ daily_pnl' = [total_pnl |-> daily_pnl.total_pnl + pnl,
                     trade_count |-> daily_pnl.trade_count + 1]
    /\ recorded' = <<>>
    /\ limits' = NotChecked
    /\ UNCHANGED <<clock, protection_mode, protection_reason, protection_start_time,
                   balances, initial_balance, peak_balance, drawdown, open_positions,
                   sizing>>
    /\ UNCHANGED <<nonRiskVars>>

\* enter_protection_mode(reason), as an update of the three fields; its call
\* of _tighten_all_stop_losses logs a line and changes nothing.
EnterProtectionMode(reason) ==
    IF ~protection_mode
    THEN /\ protection_mode' = TRUE
         /\ protection_reason' = reason
         /\ protection_start_time' = clock
    ELSE UNCHANGED <<protection_mode, protection_reason, protection_start_time>>

\* exit_protection_mode, likewise.
ExitProtectionMode ==
    IF protection_mode
    THEN /\ protection_mode' = FALSE
         /\ protection_reason' = NoReason
         /\ protection_start_time' = NoTime
    ELSE UNCHANGED <<protection_mode, protection_reason, protection_start_time>>

\* The three fields after detect_market_anomalies(market_data).
DetectAnomalies(btc_volatility, recent_positions, day_positions, extreme) ==
    IF btc_volatility > VolatilityThreshold
    THEN EnterProtectionMode("btc_volatility")
    ELSE IF PositionChangeRate(recent_positions, day_positions) > ChangeRateThreshold
    THEN EnterProtectionMode("position_change_rate")
    ELSE IF drawdown > RapidDrawdown * PctUnit /\ IsRapidDrawdown
    THEN EnterProtectionMode("rapid_drawdown")
    ELSE IF extreme
    THEN EnterProtectionMode("extreme_price_movement")
    ELSE IF protection_mode /\ ShouldExitProtectionMode
    THEN ExitProtectionMode
    ELSE UNCHANGED <<protection_mode, protection_reason, protection_start_time>>

\* detect_market_anomalies(market_data).
DetectMarketAnomalies(btc_volatility, recent_positions, day_positions, extreme) ==
    /\ DetectAnomalies(btc_volatility, recent_positions, day_positions, extreme)
    /\ limits' = NotChecked
    /\ UNCHANGED <<clock, balances, initial_balance, peak_balance, drawdown,
                   open_positions, daily_pnl, sizing>>
    /\ recorded' = <<>>
    /\ UNCHANGED <<nonRiskVars>>

\* check_risk_limits().
CheckRiskLimitsCall ==
    /\ limits' = [called |-> TRUE, value |-> CheckRiskLimits.value,
                  raised |-> CheckRiskLimits.raised]
    /\ UNCHANGED <<clock, protection_mode, protection_reason, protection_start_time,
                   balances, initial_balance, peak_balance, drawdown, open_positions,
                   daily_pnl, sizing>>
    /\ recorded' = <<>>
    /\ UNCHANGED <<nonRiskVars>>

\* The clock moves on by d seconds.
ClockAdvance(d) ==
    /\ clock' = clock + d
    /\ limits' = NotChecked
    /\ UNCHANGED <<protection_mode, protection_reason, protection_start_time,
                   balances, initial_balance, peak_balance, drawdown, open_positions,
                   daily_pnl, sizing>>
    /\ recorded' = <<>>
    /\ UNCHANGED <<nonRiskVars>>

\* ---- calculate_position_size ----
\*
\* Prices and balances are whole USDT, a quantity is in units of 1/QtyUnit
\* coin, signal strength and risk are whole percent.  USDT amounts inside the
\* computation are exact fractions [num, den] in lowest terms.

QtyUnit == 10 ^ 3
RiskScale == 200
MaxPositionDivisor == 4
LeverageBase == 10

RECURSIVE Gcd(_, _)
Gcd(a, b) == IF b = 0 THEN a ELSE Gcd(b, a % b)

Frac(n, d) == LET g == Gcd(Abs(n), d) IN [num |-> n \div g, den |-> d \div g]
FracLess(x, y) == x.num * y.den < y.num * x.den
FracMin(x, y) == IF FracLess(y, x) THEN y ELSE x

\* One StrategyParams setting and one get_symbol_precision result.
StrategyConfig(position_size_type, fixed_position_size, account_risk_per_trade, auto_leverage, max_leverage, default_leverage) ==
    [position_size_type |-> position_size_type,
     static_sl_percent |-> static_sl_percent,
     fixed_position_size |-> fixed_position_size,
     account_risk_per_trade |-> account_risk_per_trade,
     auto_leverage |-> auto_leverage,
     max_leverage |-> max_leverage,
     default_leverage |-> default_leverage]

SymbolInfo(min_notional, min_qty, qty_precision) ==
    [min_notional |-> min_notional, min_qty |-> min_qty, qty_precision |-> qty_precision]

\* adjusted_risk = min(account_risk_pct * (signal_strength / 100) * 1.5,
\* account_risk_pct), in units of 1/RiskScale percent.
AdjustedRisk(account_risk_pct, signal_strength) ==
    Min2(account_risk_pct * signal_strength * 3, account_risk_pct * RiskScale)

\* The cap at half of the available balance.
MaxPositionUsdtHalf(available_balance) == Frac(available_balance, 2)

\* max_position_usdt = available_balance * 0.25.
MaxPositionUsdt(available_balance) == Frac(available_balance, MaxPositionDivisor)

\* sl_pct / 100 as the pair <<distance, price>>: the configured percentage
\* when either price is 0, else the distance of the stop from the entry.
StopDistance(cfg, entry_price, stop_loss_price, signal_type) ==
    IF entry_price = 0 \/ stop_loss_price = 0
    THEN <<cfg.static_sl_percent, 100>>
    ELSE IF signal_type = "LONG"
         THEN <<Abs(entry_price - stop_loss_price), Abs(entry_price)>>
         ELSE <<Abs(stop_loss_price - entry_price), Abs(entry_price)>>

\* target_leverage = int(max(1, min(max_leverage, 10 / sl_pct))) with
\* sl_pct = sl[1] / sl[2] * 100.
AutoLeverage(max_leverage, sl) ==
    Max2(1, Min2(max_leverage, (LeverageBase * sl[2]) \div (100 * sl[1])))

\* round(x, precision) of a quantity x, to the nearest multiple of
\* 10^-precision, a tie going to the even multiple.
RoundTo(x, precision) ==
    LET unit == IF precision >= 3 THEN 1 ELSE 10 ^ (3 - precision)
        lower == (x \div unit) * unit
        rest == x - lower
    IN IF 2 * rest < unit THEN lower
       ELSE IF 2 * rest > unit THEN lower + unit
       ELSE IF (x \div unit) % 2 = 0 THEN lower ELSE lower + unit

SizeRaised(cfg) ==
    [quantity |-> 0, leverage |-> cfg.default_leverage, raised |-> TRUE,
     uncapped |-> Frac(0, 1), notional |-> Frac(0, 1)]

\* The tail of calculate_position_size, from the minimum check on.
SizeFromNotional(cfg, position_size_usdt, target_leverage, info, entry_price) ==
    IF FracLess(position_size_usdt, Frac(info.min_notional, 1))
    THEN [quantity |-> 0, leverage |-> target_leverage, raised |-> FALSE,
          uncapped |-> position_size_usdt, notional |-> position_size_usdt]
    ELSE IF entry_price = 0 \/ info.min_qty = 0
    THEN \* a division by zero
         SizeRaised(cfg)
    ELSE LET capped == FracMin(position_size_usdt, MaxPositionUsdt(GetAvailableBalance))
             \* leveraged_quantity / qty_step, both in units of 1/QtyUnit
             steps == (capped.num * target_leverage * QtyUnit)
                          \div (capped.den * entry_price * info.min_qty)
         IN [quantity |-> RoundTo(steps * info.min_qty, info.qty_precision),
             leverage |-> target_leverage, raised |-> FALSE,
             uncapped |-> position_size_usdt, notional |-> capped]

\* calculate_position_size(symbol, entry_price, stop_loss_price, signal_type,
\* signal_strength) under the settings cfg and the symbol filters info.
CalculatePositionSize(cfg, info, entry_price, stop_loss_price, signal_type, signal_strength) ==
    IF protection_mode
    THEN [quantity |-> 0, leverage |-> cfg.default_leverage, raised |-> FALSE,
          uncapped |-> Frac(0, 1), notional |-> Frac(0, 1)]
    ELSE IF cfg.position_size_type = "FIXED"
    THEN \* target_leverage is not bound on this path: the first use raises
         SizeRaised(cfg)
    ELSE LET sl == StopDistance(cfg, entry_price, stop_loss_price, signal_type)
             risk_amount == Frac(GetAvailableBalance
                                     * AdjustedRisk(cfg.account_risk_per_trade,
                                                    signal_strength),
                                 RiskScale * 100)
         IN IF sl[1] = 0
            THEN \* a division by zero
                 SizeRaised(cfg)
            ELSE LET target_leverage ==
                         IF cfg.auto_leverage
                         THEN AutoLeverage(cfg.max_leverage, sl)
                         ELSE cfg.default_leverage
                     base == Frac(risk_amount.num * target_leverage * sl[2],
                                  risk_amount.den * sl[1])
                     n == Len(open_positions)
                     position_size_usdt ==
                         IF cfg.position_size_type = "DYNAMIC" /\ n > 0
                         THEN Frac(base.num * Max2(2, 10 - 2 * n), base.den * 10)
                         ELSE base
                 IN SizeFromNotional(cfg, position_size_usdt, target_leverage, info,
                                     entry_price)

\* calculate_position_size as a step: the call and what it returned.
CalculatePositionSizeCall(cfg, info, entry_price, stop_loss_price, signal_type, signal_strength) ==
    /\ sizing' = [called |-> TRUE, cfg |-> cfg, info |-> info,
                  entry_price |-> entry_price, stop_loss_price |-> stop_loss_price,
                  signal_type |-> signal_type, signal_strength |-> signal_strength,
                  result |-> CalculatePositionSize(cfg, info, entry_price,
                                                   stop_loss_price, signal_type,
                                                   signal_strength)]
    /\ UNCHANGED <<clock, protection_mode, protection_reason, protection_start_time,
                   balances, initial_balance, peak_balance, drawdown, open_positions,
                   daily_pnl, limits>>
    /\ recorded' = <<>>
    /\ UNCHANGED <<nonRiskVars>>

\* The caller (open_position) has unpacked the returned quantity and leverage.
PositionSizeTaken ==
    /\ sizing' = NotSized
    /\ UNCHANGED <<clock, protection_mode, protection_reason, protection_start_time,
                   balances, initial_balance, peak_balance, drawdown, open_positions,
                   daily_pnl, limits>>
    /\ recorded' = <<>>
    /\ UNCHANGED <<nonRiskVars>>

-----------------------------------------------------------------------------
(***************************************************************************)
(* Part 4: PositionManager                                                 *)
(***************************************************************************)

NoTrade == [present |-> FALSE, partially_closed |-> FALSE]
NoStop == -1
NoOrder == [kind |-> "none"]
NoFrame == [op |-> "none", returned |-> "None"]
NoLevels == -1

\* What the venue holds for a symbol: no position and no conditional order,
\* or a position of amount (in 1/QtyUnit coin) with its live orders.
Flat == [side |-> "NONE", amount |-> 0, entry_price |-> 0, leverage |-> 0,
         stops |-> 0, take_profits |-> 0]
Holding(side, amount, entry_price, leverage, stops, take_profits) ==
    [side |-> side, amount |-> amount, entry_price |-> entry_price,
     leverage |-> leverage, stops |-> stops, take_profits |-> take_profits]

\* The venue holding the listed positions, each with the given numbers of
\* live stop and take-profit orders.
VenueHolding(positions, stops, take_profits) ==
    [s \in Symbols |->
        IF \E i \in 1..Len(positions) : positions[i].symbol = s
        THEN LET p == positions[CHOOSE i \in 1..Len(positions) : positions[i].symbol = s]
             IN Holding(p.side, Abs(p.amount) * QtyUnit, p.entry_price, p.leverage,
                        stops, take_profits)
        ELSE Flat]

\* PositionManager after __init__.
PmInit ==
    /\ position_lock = NoTask
    /\ pm_pc = [t \in Tasks |-> "idle"]
    /\ pm_frame = [t \in Tasks |-> NoFrame]
    /\ active_trades = [s \in Symbols |-> NoTrade]
    /\ stop_orders = [s \in Symbols |-> NoStop]
    /\ orders = <<>>
    /\ submitted = NoOrder
    /\ take_profit_orders = [s \in Symbols |-> NoLevels]
    /\ venue = VenueHolding(open_positions, 0, 0)

\* ---- open_position ----
\*
\* A handler of the position manager runs in one task and yields at each
\* await; pm_pc[t] names the call task t is suspended in and pm_frame[t]
\* holds the locals of its handler.  One action is the code between two
\* awaits.  A stop price is in units of 1/PriceUnit USDT.

PriceUnit == 10 ^ 2
TakeProfitTargets == 3

\* The settings and the symbol filters the entries run under.
EntryConfig == StrategyConfig("RISK_BASED", 100, 1, TRUE, 10, 3)
EntryInfo == SymbolInfo(5, 1, 3)

\* get_position_for_symbol(symbol): the entries of that symbol, first one first.
GetPositionForSymbol(symbol) ==
    SelectSeq(open_positions, LAMBDA p : p.symbol = symbol)

\* calculate_stop_loss(symbol, entry_price, signal_type, market_volatility)
\* in whole USDT, a tie of the rounding going to the even price.
CalculateStopLoss(entry_price, signal_type, market_volatility) ==
    LET \* adjusted_sl_pct = max(0.5, min(10.0, static * volatility)), in halves
        adjusted == Max2(1, Min2(20, 2 * static_sl_percent * market_volatility))
        n == IF signal_type = "LONG" THEN entry_price * (200 - adjusted)
             ELSE entry_price * (200 + adjusted)
        lower == n \div 200
        rest == n % 200
    IN IF rest < 100 THEN lower
       ELSE IF rest > 100 THEN lower + 1
       ELSE IF lower % 2 = 0 THEN lower ELSE lower + 1

\* "return None" of a handler that holds the position lock.
Return(t) ==
    /\ pm_pc' = [pm_pc EXCEPT ![t] = "idle"]
    /\ pm_frame' = [pm_frame EXCEPT ![t] = NoFrame]
    /\ position_lock' = IF position_lock = t THEN NoTask ELSE position_lock

\* Task t returns value from its call.
ReturnValue(t, value) ==
    /\ pm_pc' = [pm_pc EXCEPT ![t] = "idle"]
    /\ pm_frame' = [pm_frame EXCEPT ![t] = [op |-> "none", returned |-> value]]
    /\ position_lock' = IF position_lock = t THEN NoTask ELSE position_lock

\* The holding h after a market order of quantity on side was filled at
\* price: a new position, a larger one, or what is left of the opposite one.
VenueFill(h, side, quantity, price, leverage) ==
    IF h.side = "NONE"
    THEN [h EXCEPT !.side = side, !.amount = quantity, !.entry_price = price,
                   !.leverage = leverage]
    ELSE IF h.side = side THEN [h EXCEPT !.amount = @ + quantity]
    ELSE IF h.amount > quantity THEN [h EXCEPT !.amount = @ - quantity]
    ELSE IF h.amount = quantity
    THEN [h EXCEPT !.side = "NONE", !.amount = 0, !.entry_price = 0, !.leverage = 0]
    ELSE [h EXCEPT !.side = side, !.amount = quantity - h.amount,
                   !.entry_price = price, !.leverage = leverage]

\* The holding h after a reduce-only market order of quantity.
VenueReduce(h, quantity) ==
    IF h.amount > quantity THEN [h EXCEPT !.amount = @ - quantity]
    ELSE [h EXCEPT !.side = "NONE", !.amount = 0, !.entry_price = 0, !.leverage = 0]
\* Task t suspends in the awaited call with the locals frame.
Await(t, call, frame) ==
    /\ pm_pc' = [pm_pc EXCEPT ![t] = call]
    /\ pm_frame' = [pm_frame EXCEPT ![t] = frame]
    /\ UNCHANGED position_lock

riskFields == <<clock, protection_mode, protection_reason, protection_start_time,
                balances, initial_balance, peak_balance, drawdown, open_positions,
                limits, sizing>>

\* The body of open_position under the lock, from the risk limits (found to
\* be limits_ok) to its first suspension; venue_before is what the venue
\* holds for the symbol when the call begins.
OpenPositionEnter(t, symbol, signal_type, signal_strength, limits_ok) ==
    LET existing_position == GetPositionForSymbol(symbol)
    IN IF ~limits_ok
       THEN /\ Return(t)
       ELSE IF existing_position # <<>> /\ Head(existing_position).side = signal_type
       THEN /\ Return(t)
       ELSE IF existing_position # <<>>
       THEN \* close_position waits for the lock this task holds
            /\ pm_pc' = [pm_pc EXCEPT ![t] = "close_position"]
            /\ pm_frame' = [pm_frame EXCEPT ![t] =
                               [op |-> "open_position", symbol |-> symbol]]
            /\ position_lock' = t
       ELSE /\ pm_pc' = [pm_pc EXCEPT ![t] = "get_mark_price"]
            /\ pm_frame' = [pm_frame EXCEPT ![t] =
                               [op |-> "open_position", symbol |-> symbol,
                                signal_type |-> signal_type,
                                signal_strength |-> signal_strength,
                                venue_before |-> venue'[symbol]]]
            /\ position_lock' = t

\* open_position(symbol, signal_type, signal_strength) from its first line to
\* its first suspension: the lock, the risk limits, the existing position.
OpenPosition(t, symbol, signal_type, signal_strength) ==
    /\ pm_pc[t] = "idle"
    /\ position_lock = NoTask
    /\ submitted' = NoOrder
    /\ UNCHANGED <<active_trades, stop_orders, orders, daily_pnl>>
    /\ recorded' = <<>>
    /\ UNCHANGED <<take_profit_orders, venue>>
    /\ UNCHANGED <<riskFields, nonPmVars>>
    /\ OpenPositionEnter(t, symbol, signal_type, signal_strength,
                         CheckRiskLimits.value)

\* get_mark_price answered current_price: the stop, the size, and on to
\* set_margin_type.
MarkPriceReturned(t, current_price) ==
    /\ pm_pc[t] = "get_mark_price"
    /\ pm_frame[t].op = "open_position"
    /\ LET f == pm_frame[t]
           stop_loss_price == CalculateStopLoss(current_price, f.signal_type, 1)
           size == CalculatePositionSize(EntryConfig, EntryInfo, current_price,
                                         stop_loss_price, f.signal_type,
                                         f.signal_strength)
       IN IF current_price <= 0
          THEN Return(t)
          ELSE IF size.quantity <= 0
          THEN Return(t)
          ELSE Await(t, "set_margin_type",
                     [op |-> "open_position", symbol |-> f.symbol,
                      signal_type |-> f.signal_type,
                      current_price |-> current_price,
                      venue_before |-> f.venue_before,
                      stop_loss_price |-> stop_loss_price,
                      quantity |-> size.quantity, leverage |-> size.leverage])
    /\ submitted' = NoOrder
    /\ UNCHANGED <<active_trades, stop_orders, orders, daily_pnl>>
    /\ recorded' = <<>>
    /\ UNCHANGED <<take_profit_orders, venue>>
    /\ UNCHANGED <<riskFields, nonPmVars>>

\* set_margin_type returned (its result is only logged): on to set_leverage.
MarginTypeSet(t) ==
    /\ pm_pc[t] = "set_margin_type"
    /\ Await(t, "set_leverage", pm_frame[t])
    /\ submitted' = NoOrder
    /\ UNCHANGED <<active_trades, stop_orders, orders, daily_pnl>>
    /\ recorded' = <<>>
    /\ UNCHANGED <<take_profit_orders, venue>>
    /\ UNCHANGED <<riskFields, nonPmVars>>

\* set_leverage returned (likewise), having stored the leverage the venue
\* set in the cache: on to create_market_order.
LeverageSet(t) ==
    /\ pm_pc[t] = "set_leverage"
    /\ Await(t, "create_market_order", pm_frame[t])
    /\ leverage_cache' = [leverage_cache EXCEPT ![pm_frame[t].symbol] = pm_frame[t].leverage]
    /\ venue_leverage' = [venue_leverage EXCEPT ![pm_frame[t].symbol] = pm_frame[t].leverage]
    /\ submitted' = NoOrder
    /\ UNCHANGED <<active_trades, stop_orders, orders, daily_pnl>>
    /\ recorded' = <<>>
    /\ UNCHANGED <<take_profit_orders, venue>>
    /\ UNCHANGED <<riskFields, gwVars, poolVars>>

\* The entry order reached the venue and was filled: record_trade, the
\* active trade, and on to the stop order.
EntryOrderFilled(t) ==
    /\ pm_pc[t] = "create_market_order"
    /\ pm_frame[t].op = "open_position"
    /\ LET f == pm_frame[t]
           order == [kind |-> "entry", symbol |-> f.symbol, reduce_only |-> FALSE,
                     protection_mode |-> protection_mode]
       IN /\ submitted' = order
          /\ orders' = Append(orders, [kind |-> "entry", symbol |-> f.symbol])
          /\ active_trades' = [active_trades EXCEPT ![f.symbol] =
                                  [present |-> TRUE, partially_closed |-> FALSE]]
          /\ venue' = [venue EXCEPT ![f.symbol] =
                          VenueFill(@, f.signal_type, f.quantity, f.current_price,
                                    f.leverage)]
          /\ recorded' = << LedgerEntry("OPEN", f.symbol, 0) >>
          /\ Await(t, "create_stop_market_order", f)
    /\ daily_pnl' = [daily_pnl EXCEPT !.trade_count = @ + 1]
    /\ UNCHANGED <<stop_orders, take_profit_orders>>
    /\ UNCHANGED <<riskFields, nonPmVars>>

\* create_stop_market_order returned, with an order or with nothing: the
\* tracked stop, and on to the take-profit orders.
StopOrderReturned(t, placed) ==
    /\ pm_pc[t] = "create_stop_market_order"
    /\ pm_frame[t].op = "open_position"
    /\ LET f == pm_frame[t]
       IN /\ stop_orders' = IF placed
                            THEN [stop_orders EXCEPT ![f.symbol] =
                                     f.stop_loss_price * PriceUnit]
                            ELSE stop_orders
          /\ submitted' = [kind |-> "stop", symbol |-> f.symbol, reduce_only |-> TRUE,
                           protection_mode |-> protection_mode]
          /\ venue' = [venue EXCEPT ![f.symbol].stops = IF placed THEN @ + 1 ELSE @]
          /\ take_profit_orders' = [take_profit_orders EXCEPT ![f.symbol] = 0]
          /\ Await(t, "create_take_profit_market_order",
                   [op |-> "open_position", symbol |-> f.symbol, level |-> 1])
    /\ UNCHANGED <<active_trades, orders, daily_pnl>>
    /\ recorded' = <<>>
    /\ UNCHANGED <<riskFields, nonPmVars>>

\* create_take_profit_market_order returned for one level: the next level,
\* or the end of open_position, where the sink is called before the return.
TakeProfitOrderReturned(t, sink) ==
    /\ pm_pc[t] = "create_take_profit_market_order"
    /\ LET f == pm_frame[t]
       IN /\ submitted' = [kind |-> "take_profit", symbol |-> f.symbol,
                           reduce_only |-> TRUE, protection_mode |-> protection_mode]
          /\ venue' = [venue EXCEPT ![f.symbol].take_profits = @ + 1]
          /\ take_profit_orders' = [take_profit_orders EXCEPT ![f.symbol] = @ + 1]
          /\ IF f.level < TakeProfitTargets
             THEN Await(t, "create_take_profit_market_order",
                        [f EXCEPT !.level = @ + 1])
             ELSE IF sink = "raises" THEN Return(t)
             ELSE ReturnValue(t, "trade_info")
    /\ UNCHANGED <<active_trades, stop_orders, orders, daily_pnl>>
    /\ recorded' = <<>>
    /\ UNCHANGED <<riskFields, nonPmVars>>

\* The call open_position is suspended in raised: "except Exception" logs
\* and returns None.
OpenPositionRaised(t) ==
    /\ pm_pc[t] \in {"get_mark_price", "set_margin_type", "set_leverage",
                     "create_market_order", "create_stop_market_order",
                     "create_take_profit_market_order"}
    /\ pm_frame[t].op = "open_position"
    /\ Return(t)
    /\ submitted' = NoOrder
    /\ UNCHANGED <<active_trades, stop_orders, orders, daily_pnl>>
    /\ recorded' = <<>>
    /\ UNCHANGED <<take_profit_orders, venue>>
    /\ UNCHANGED <<riskFields, nonPmVars>>

\* ---- update_trailing_stop and update_stop_loss ----
\*
\* A current price is in units of 1/PriceUnit USDT, like a stop price; the
\* candidate stop is kept as its numerator over 100, before the rounding.

trailing_sl_distance == 1
IntervalScale == 1000
IntervalUp == 1005
IntervalDown == 995
partial_close_threshold == 2
partial_close_percentage == 50

\* new_stop = current_price -/+ current_price * (trailing_sl_distance / 100),
\* as a numerator over 100.
CandidateStop(side, current_price) ==
    IF side = "LONG" THEN current_price * (100 - trailing_sl_distance)
    ELSE current_price * (100 + trailing_sl_distance)

\* The two tests of update_trailing_stop on a candidate (over 100) against
\* current_stop: beyond the stop, and beyond the stop moved by
\* trailing_sl_interval (0.5 percent).
PassesThreshold(side, candidate, current_stop) ==
    IF side = "LONG"
    THEN /\ candidate > current_stop * 100
         /\ candidate * IntervalScale > current_stop * IntervalUp * 100
    ELSE /\ candidate < current_stop * 100
         /\ candidate * IntervalScale < current_stop * IntervalDown * 100

\* round(new_stop_price, price_precision) of the candidate n/100, a tie going
\* to the even price.
RoundPrice(n) ==
    LET lower == n \div 100
        rest == n % 100
    IN IF rest < 50 THEN lower
       ELSE IF rest > 50 THEN lower + 1
       ELSE IF lower % 2 = 0 THEN lower ELSE lower + 1

\* _calculate_position_pnl_percent(position, current_price) > threshold.
PnlPercentAbove(position, current_price, threshold) ==
    IF position.side = "LONG"
    THEN (current_price - position.entry_price * PriceUnit) * 100
             > threshold * position.entry_price * PriceUnit
    ELSE (position.entry_price * PriceUnit - current_price) * 100
             > threshold * position.entry_price * PriceUnit

\* should_close_position(symbol, current_price, signal_type), its first value.
ShouldClosePosition(symbol, current_price, signal_type) ==
    LET position == GetPositionForSymbol(symbol)
    IN /\ position # <<>>
       /\ \/ Head(position).side = "LONG" /\ signal_type = "SHORT"
          \/ Head(position).side = "SHORT" /\ signal_type = "LONG"
          \/ PnlPercentAbove(Head(position), current_price, partial_close_threshold)

\* update_trailing_stop(symbol, current_price) up to its first suspension,
\* which is in cancel_pending_orders inside update_stop_loss, or to its end.
UpdateTrailingStop(t, symbol, current_price) ==
    /\ pm_pc[t] = "idle"
    /\ LET position == GetPositionForSymbol(symbol)
       IN IF position = <<>> \/ stop_orders[symbol] = NoStop
          THEN UNCHANGED <<pm_pc, pm_frame>>
          ELSE LET side == Head(position).side
                   candidate == CandidateStop(side, current_price)
               IN IF PassesThreshold(side, candidate, stop_orders[symbol])
                  THEN /\ pm_pc' = [pm_pc EXCEPT ![t] = "cancel_all_open_orders"]
                       /\ pm_frame' = [pm_frame EXCEPT ![t] =
                              [op |-> "update_trailing_stop", symbol |-> symbol,
                               candidate |-> candidate,
                               new_stop_price |-> RoundPrice(candidate)]]
                  ELSE UNCHANGED <<pm_pc, pm_frame>>
    /\ submitted' = NoOrder
    /\ UNCHANGED <<position_lock, active_trades, stop_orders, orders, daily_pnl>>
    /\ recorded' = <<>>
    /\ UNCHANGED <<take_profit_orders, venue>>
    /\ UNCHANGED <<riskFields, nonPmVars>>

\* The holding h after cancel_all_open_orders, which takes every stop and
\* take-profit order of the symbol off the venue when it succeeds.
VenueCancel(h, cancelled) ==
    IF cancelled THEN [h EXCEPT !.stops = 0, !.take_profits = 0] ELSE h

\* cancel_pending_orders returned, the venue having cancelled the orders or
\* not (it swallows a failure): on to create_stop_market_order.
PendingOrdersCancelled(t, cancelled) ==
    /\ pm_pc[t] = "cancel_all_open_orders"
    /\ pm_frame[t].op = "update_trailing_stop"
    /\ venue' = [venue EXCEPT ![pm_frame[t].symbol] = VenueCancel(@, cancelled)]
    /\ Await(t, "create_stop_market_order", pm_frame[t])
    /\ submitted' = NoOrder
    /\ UNCHANGED <<active_trades, stop_orders, orders, daily_pnl>>
    /\ recorded' = <<>>
    /\ UNCHANGED take_profit_orders
    /\ UNCHANGED <<riskFields, nonPmVars>>

\* create_stop_market_order of update_stop_loss returned, with an order or
\* with nothing (or it raised): the tracked stop, the sink, and the end of
\* the call.
StopOrderReplaced(t, placed, sink) ==
    /\ pm_pc[t] = "create_stop_market_order"
    /\ pm_frame[t].op = "update_trailing_stop"
    /\ LET f == pm_frame[t]
       IN IF placed
          THEN /\ stop_orders' = [stop_orders EXCEPT ![f.symbol] = f.new_stop_price]
               /\ venue' = [venue EXCEPT ![f.symbol].stops = @ + 1]
               /\ submitted' = [kind |-> "stop", symbol |-> f.symbol,
                                reduce_only |-> TRUE,
                                protection_mode |-> protection_mode]
               /\ IF sink = "raises" THEN Return(t)
                  ELSE ReturnValue(t, "stop_order")
          ELSE /\ UNCHANGED <<stop_orders, venue>>
               /\ submitted' = NoOrder
               /\ Return(t)
    /\ UNCHANGED <<active_trades, orders, daily_pnl>>
    /\ recorded' = <<>>
    /\ UNCHANGED take_profit_orders
    /\ UNCHANGED <<riskFields, nonPmVars>>

\* ---- process_partial_close ----
\*
\* An order quantity is in units of 1/QtyUnit coin; the amount of a position
\* is in whole coins.

\* process_partial_close(symbol, current_price) up to its suspension in
\* create_market_order, or to its end.
ProcessPartialClose(t, symbol, current_price) ==
    /\ pm_pc[t] = "idle"
    /\ LET position == GetPositionForSymbol(symbol)
       IN IF position = <<>>
          THEN UNCHANGED <<pm_pc, pm_frame>>
          ELSE IF ~PnlPercentAbove(Head(position), current_price,
                                   partial_close_threshold)
          THEN UNCHANGED <<pm_pc, pm_frame>>
          ELSE IF active_trades[symbol].present /\ active_trades[symbol].partially_closed
          THEN UNCHANGED <<pm_pc, pm_frame>>
          ELSE /\ pm_pc' = [pm_pc EXCEPT ![t] = "create_market_order"]
               /\ pm_frame' = [pm_frame EXCEPT ![t] =
                      [op |-> "process_partial_close", symbol |-> symbol,
                       side |-> Head(position).side,
                       entry_price |-> Head(position).entry_price,
                       current_price |-> current_price,
                       close_qty |-> (Abs(Head(position).amount) * QtyUnit
                                         * partial_close_percentage) \div 100]]
    /\ submitted' = NoOrder
    /\ UNCHANGED <<position_lock, active_trades, stop_orders, orders, daily_pnl>>
    /\ recorded' = <<>>
    /\ UNCHANGED <<take_profit_orders, venue>>
    /\ UNCHANGED <<riskFields, nonPmVars>>

\* The reduce-only order reached the venue and was filled at current_price:
\* record_trade with the pnl, the flag on the active trade if there is one,
\* the sink.
PartialCloseFilled(t, sink) ==
    /\ pm_pc[t] = "create_market_order"
    /\ pm_frame[t].op = "process_partial_close"
    /\ LET f == pm_frame[t]
           move == IF f.side = "LONG" THEN f.current_price - f.entry_price * PriceUnit
                   ELSE f.entry_price * PriceUnit - f.current_price
           pnl == (move * f.close_qty) \div (PriceUnit * QtyUnit)
       IN /\ submitted' = [kind |-> "partial_close", symbol |-> f.symbol,
                           reduce_only |-> TRUE, protection_mode |-> protection_mode]
          /\ orders' = Append(orders, [kind |-> "partial_close", symbol |-> f.symbol,
                                       quantity |-> f.close_qty])
          /\ daily_pnl' = [total_pnl |-> daily_pnl.total_pnl + pnl,
                           trade_count |-> daily_pnl.trade_count + 1]
          /\ active_trades' = IF active_trades[f.symbol].present
                              THEN [active_trades EXCEPT
                                       ![f.symbol].partially_closed = TRUE]
                              ELSE active_trades
          /\ venue' = [venue EXCEPT ![f.symbol] = VenueReduce(@, f.close_qty)]
          /\ recorded' = << LedgerEntry("TP", f.symbol, pnl) >>
    /\ IF sink = "raises" THEN Return(t) ELSE ReturnValue(t, "trade_info")
    /\ UNCHANGED <<stop_orders, take_profit_orders>>
    /\ UNCHANGED <<riskFields, nonPmVars>>

\* create_market_order returned nothing, or raised: process_partial_close
\* logs and returns None.
PartialCloseFailed(t) ==
    /\ pm_pc[t] = "create_market_order"
    /\ pm_frame[t].op = "process_partial_close"
    /\ Return(t)
    /\ submitted' = NoOrder
    /\ UNCHANGED <<active_trades, stop_orders, orders, daily_pnl>>
    /\ recorded' = <<>>
    /\ UNCHANGED <<take_profit_orders, venue>>
    /\ UNCHANGED <<riskFields, nonPmVars>>

\* ---- close_position ----

\* close_position that goes to its market order at once, without
\* cancel_pending_orders.
ClosePositionNoCancel(t, symbol, reopen, signal_strength) ==
    /\ pm_pc[t] = "idle"
    /\ position_lock = NoTask
    /\ LET position == GetPositionForSymbol(symbol)
       IN IF position = <<>>
          THEN Return(t)
          ELSE /\ pm_pc' = [pm_pc EXCEPT ![t] = "create_market_order"]
               /\ pm_frame' = [pm_frame EXCEPT ![t] =
                      [op |-> "close_position", symbol |-> symbol,
                       position |-> Head(position), reopen |-> reopen,
                       signal_strength |-> signal_strength,
                       cancel_requested |-> FALSE,
                       venue_before |-> venue[symbol]]]
               /\ position_lock' = t
    /\ submitted' = NoOrder
    /\ UNCHANGED <<active_trades, stop_orders, orders, daily_pnl>>
    /\ recorded' = <<>>
    /\ UNCHANGED <<take_profit_orders, venue>>
    /\ UNCHANGED <<riskFields, nonPmVars>>

\* close_position(symbol) from its first line to its suspension in
\* cancel_pending_orders, or to its end.  reopen is the signal with which
\* check_and_process_signal calls open_position after a close that returned
\* a trade, "NONE" when it does not; cancel_requested tells whether the call
\* has been through cancel_pending_orders, venue_before what the venue held
\* for the symbol when the call began.
ClosePosition(t, symbol, reopen, signal_strength) ==
    /\ pm_pc[t] = "idle"
    /\ position_lock = NoTask
    /\ LET position == GetPositionForSymbol(symbol)
       IN IF position = <<>>
          THEN Return(t)
          ELSE /\ pm_pc' = [pm_pc EXCEPT ![t] = "cancel_all_open_orders"]
               /\ pm_frame' = [pm_frame EXCEPT ![t] =
                      [op |-> "close_position", symbol |-> symbol,
                       position |-> Head(position), reopen |-> reopen,
                       signal_strength |-> signal_strength,
                       cancel_requested |-> FALSE,
                       venue_before |-> venue[symbol]]]
               /\ position_lock' = t
    /\ submitted' = NoOrder
    /\ UNCHANGED <<active_trades, stop_orders, orders, daily_pnl>>
    /\ recorded' = <<>>
    /\ UNCHANGED <<take_profit_orders, venue>>
    /\ UNCHANGED <<riskFields, nonPmVars>>

\* cancel_pending_orders of close_position returned, the venue having
\* cancelled the orders or not: on to the reduce-only market order.
ClosePositionOrdersCancelled(t, cancelled) ==
    /\ pm_pc[t] = "cancel_all_open_orders"
    /\ pm_frame[t].op = "close_position"
    /\ venue' = [venue EXCEPT ![pm_frame[t].symbol] = VenueCancel(@, cancelled)]
    /\ Await(t, "create_market_order", [pm_frame[t] EXCEPT !.cancel_requested = TRUE])
    /\ submitted' = NoOrder
    /\ UNCHANGED <<active_trades, stop_orders, orders, daily_pnl>>
    /\ recorded' = <<>>
    /\ UNCHANGED take_profit_orders
    /\ UNCHANGED <<riskFields, nonPmVars>>

\* The reduce-only order for the listed amount was filled at the listed mark
\* price: record_trade with the pnl, the three bookkeeping entries deleted,
\* the sink, and the return; check_and_process_signal then calls
\* open_position at once when it has a signal to reopen with.
ClosePositionFilled(t, sink) ==
    /\ pm_pc[t] = "create_market_order"
    /\ pm_frame[t].op = "close_position"
    /\ LET f == pm_frame[t]
           filled_qty == Abs(f.position.amount)
           pnl == IF f.position.side = "LONG"
                  THEN (f.position.mark_price - f.position.entry_price) * filled_qty
                  ELSE (f.position.entry_price - f.position.mark_price) * filled_qty
       IN /\ submitted' = [kind |-> "close", symbol |-> f.symbol,
                           reduce_only |-> TRUE, protection_mode |-> protection_mode,
                           quantity |-> filled_qty * QtyUnit]
          /\ orders' = Append(orders, [kind |-> "close", symbol |-> f.symbol])
          /\ venue' = [venue EXCEPT ![f.symbol] = VenueReduce(@, filled_qty * QtyUnit)]
          /\ daily_pnl' = [total_pnl |-> daily_pnl.total_pnl + pnl,
                           trade_count |-> daily_pnl.trade_count + 1]
          /\ recorded' = << LedgerEntry("CLOSE", f.symbol, pnl) >>
          /\ active_trades' = [active_trades EXCEPT ![f.symbol] = NoTrade]
          /\ stop_orders' = [stop_orders EXCEPT ![f.symbol] = NoStop]
          /\ take_profit_orders' = [take_profit_orders EXCEPT ![f.symbol] = NoLevels]
          /\ UNCHANGED <<riskFields, nonPmVars>>
          /\ IF sink = "raises" THEN Return(t)
             ELSE IF f.reopen = "NONE" THEN ReturnValue(t, "trade_info")
             ELSE OpenPositionEnter(t, f.symbol, f.reopen, f.signal_strength,
                                    (CheckRiskLimits.value)')

\* The reduce-only order returned nothing, or raised: close_position logs and
\* returns None.
ClosePositionFailed(t) ==
    /\ pm_pc[t] = "create_market_order"
    /\ pm_frame[t].op = "close_position"
    /\ Return(t)
    /\ submitted' = NoOrder
    /\ UNCHANGED <<active_trades, stop_orders, orders, daily_pnl>>
    /\ recorded' = <<>>
    /\ UNCHANGED <<take_profit_orders, venue>>
    /\ UNCHANGED <<riskFields, nonPmVars>>

\* ---- update_account_info, query by query ----

\* What the venue holds for the account at one instant: the total balance
\* and the open positions.
Account(total, listing) == [total |-> total, listing |-> listing]

\* update_account_info from its first line to its suspension in
\* get_account_balance, the account being account for both its queries.
RefreshBegin(t, account) ==
    /\ pm_pc[t] = "idle"
    /\ Await(t, "get_account_balance",
             [op |-> "update_account_info", previous_positions |-> open_positions,
              account |-> account])
    /\ recorded' = <<>>
    /\ UNCHANGED <<active_trades, stop_orders, orders, submitted, daily_pnl>>
    /\ UNCHANGED <<take_profit_orders, venue>>
    /\ UNCHANGED <<riskFields, nonPmVars>>

\* get_account_balance returned: self.balances is assigned, and on to
\* get_open_positions.
RefreshBalanceReturned(t) ==
    /\ pm_pc[t] = "get_account_balance"
    /\ balances' = [total |-> pm_frame[t].account.total,
                    available |-> pm_frame[t].account.total]
    /\ Await(t, "get_open_positions", pm_frame[t])
    /\ recorded' = <<>>
    /\ UNCHANGED <<clock, protection_mode, protection_reason, protection_start_time,
                   initial_balance, peak_balance, drawdown, open_positions, limits,
                   sizing, daily_pnl>>
    /\ UNCHANGED <<active_trades, stop_orders, orders, submitted>>
    /\ UNCHANGED <<take_profit_orders, venue>>
    /\ UNCHANGED nonPmVars

\* get_account_balance raised: the except clause returns False.
RefreshBalanceFailed(t) ==
    /\ pm_pc[t] = "get_account_balance"
    /\ ReturnValue(t, "False")
    /\ recorded' = <<>>
    /\ UNCHANGED <<active_trades, stop_orders, orders, submitted, daily_pnl>>
    /\ UNCHANGED <<take_profit_orders, venue>>
    /\ UNCHANGED <<riskFields, nonPmVars>>

\* The refresh with the peak balance assigned whether or not the balance is
\* above it.
RefreshPositionsReturnedPeakFollows(t, failed, sink) ==
    /\ pm_pc[t] = "get_open_positions"
    /\ LET f == pm_frame[t]
           listing == IF failed THEN <<>> ELSE f.account.listing
           entries == ManualEntries(f.previous_positions, listing)
           sink_raised == sink = "raises" /\ entries # <<>>
           logged == IF sink_raised THEN << Head(entries) >> ELSE entries
       IN /\ open_positions' = listing
          /\ recorded' = logged
          /\ daily_pnl' = [daily_pnl EXCEPT !.trade_count = @ + Len(logged)]
          /\ peak_balance' = IF sink_raised THEN peak_balance ELSE balances.total
          /\ drawdown' = IF ~sink_raised /\ peak_balance' > 0
                         THEN ((peak_balance' - balances.total) * 100 * PctUnit)
                                  \div peak_balance'
                         ELSE drawdown
          /\ ReturnValue(t, IF sink_raised THEN "False" ELSE "True")
    /\ limits' = NotChecked
    /\ UNCHANGED <<clock, protection_mode, protection_reason, protection_start_time,
                   initial_balance, balances, sizing>>
    /\ UNCHANGED <<active_trades, stop_orders, orders, submitted>>
    /\ UNCHANGED <<take_profit_orders, venue>>
    /\ UNCHANGED nonPmVars

\* get_open_positions returned the listing of the account, or the empty list
\* it returns when its query failed: self.open_positions is assigned, the
\* manual entries are recorded, each followed by a call of the sink, then the
\* peak balance and the drawdown.
RefreshPositionsReturned(t, failed, sink) ==
    /\ pm_pc[t] = "get_open_positions"
    /\ LET f == pm_frame[t]
           listing == IF failed THEN <<>> ELSE f.account.listing
           entries == ManualEntries(f.previous_positions, listing)
           sink_raised == sink = "raises" /\ entries # <<>>
           logged == IF sink_raised THEN << Head(entries) >> ELSE entries
       IN /\ open_positions' = listing
          /\ recorded' = logged
          /\ daily_pnl' = [daily_pnl EXCEPT !.trade_count = @ + Len(logged)]
          /\ peak_balance' = IF sink_raised THEN peak_balance
                             ELSE Max2(peak_balance, balances.total)
          /\ drawdown' = IF ~sink_raised /\ peak_balance' > 0
                         THEN ((peak_balance' - balances.total) * 100 * PctUnit)
                                  \div peak_balance'
                         ELSE drawdown
          /\ ReturnValue(t, IF sink_raised THEN "False" ELSE "True")
    /\ limits' = NotChecked
    /\ UNCHANGED <<clock, protection_mode, protection_reason, protection_start_time,
                   initial_balance, balances, sizing>>
    /\ UNCHANGED <<active_trades, stop_orders, orders, submitted>>
    /\ UNCHANGED <<take_profit_orders, venue>>
    /\ UNCHANGED nonPmVars

\* ---- check_and_process_signal: a position that is not to be closed ----

\* The rest of the branch once update_trailing_stop has returned
\* trailing_updated: process_partial_close to its suspension in
\* create_market_order, or its None and the return of
\* "trailing_updated or partial_close".
HoldPartialClose(t, symbol, current_price, trailing_updated) ==
    LET position == GetPositionForSymbol(symbol)
    IN IF /\ position # <<>>
          /\ PnlPercentAbove(Head(position), current_price, partial_close_threshold)
          /\ ~(active_trades[symbol].present /\ active_trades[symbol].partially_closed)
       THEN /\ pm_pc' = [pm_pc EXCEPT ![t] = "create_market_order"]
            /\ pm_frame' = [pm_frame EXCEPT ![t] =
                   [op |-> "process_partial_close", symbol |-> symbol,
                    side |-> Head(position).side,
                    entry_price |-> Head(position).entry_price,
                    current_price |-> current_price,
                    close_qty |-> (Abs(Head(position).amount) * QtyUnit
                                      * partial_close_percentage) \div 100,
                    caller |-> "check_and_process_signal",
                    trailing_updated |-> trailing_updated]]
       ELSE /\ pm_pc' = [pm_pc EXCEPT ![t] = "idle"]
            /\ pm_frame' = [pm_frame EXCEPT ![t] =
                   [op |-> "none",
                    returned |-> IF trailing_updated THEN "stop_order" ELSE "None"]]

\* check_and_process_signal(symbol, signal) for a listed position that
\* should_close_position leaves open: update_trailing_stop to its suspension
\* in cancel_pending_orders, or through it (it returns
\* self.stop_orders.get(symbol)) and on into process_partial_close.
ProcessSignalHold(t, symbol, signal, current_price) ==
    /\ pm_pc[t] = "idle"
    /\ GetPositionForSymbol(symbol) # <<>>
    /\ ~ShouldClosePosition(symbol, current_price, signal)
    /\ LET side == Head(GetPositionForSymbol(symbol)).side
           candidate == CandidateStop(side, current_price)
       IN IF /\ stop_orders[symbol] # NoStop
             /\ PassesThreshold(side, candidate, stop_orders[symbol])
          THEN /\ pm_pc' = [pm_pc EXCEPT ![t] = "cancel_all_open_orders"]
               /\ pm_frame' = [pm_frame EXCEPT ![t] =
                      [op |-> "update_trailing_stop", symbol |-> symbol,
                       candidate |-> candidate,
                       new_stop_price |-> RoundPrice(candidate),
                       caller |-> "check_and_process_signal",
                       current_price |-> current_price]]
          ELSE HoldPartialClose(t, symbol, current_price, stop_orders[symbol] # NoStop)
    /\ submitted' = NoOrder
    /\ UNCHANGED <<position_lock, active_trades, stop_orders, orders, daily_pnl>>
    /\ recorded' = <<>>
    /\ UNCHANGED <<take_profit_orders, venue>>
    /\ UNCHANGED <<riskFields, nonPmVars>>

\* create_stop_market_order of update_stop_loss returned inside the branch,
\* with an order or with nothing: the tracked stop and the sink as in
\* update_stop_loss, whose result update_trailing_stop drops; then the rest
\* of the branch.
HoldStopOrderReplaced(t, placed, sink) ==
    /\ pm_pc[t] = "create_stop_market_order"
    /\ pm_frame[t].op = "update_trailing_stop"
    /\ "caller" \in DOMAIN pm_frame[t]
    /\ LET f == pm_frame[t]
       IN /\ IF placed
             THEN /\ stop_orders' = [stop_orders EXCEPT ![f.symbol] = f.new_stop_price]
                  /\ venue' = [venue EXCEPT ![f.symbol].stops = @ + 1]
                  /\ submitted' = [kind |-> "stop", symbol |-> f.symbol,
                                   reduce_only |-> TRUE,
                                   protection_mode |-> protection_mode]
             ELSE /\ UNCHANGED <<stop_orders, venue>>
                  /\ submitted' = NoOrder
          /\ HoldPartialClose(t, f.symbol, f.current_price, stop_orders[f.symbol] # NoStop)
    /\ UNCHANGED <<position_lock, active_trades, orders, daily_pnl>>
    /\ recorded' = <<>>
    /\ UNCHANGED take_profit_orders
    /\ UNCHANGED <<riskFields, nonPmVars>>

\* ---- set_leverage and get_leverage_for_symbol ----

\* BinanceClient.__init__: the cache is empty.
LeverageInit ==
    /\ leverage_cache = [s \in Symbols |-> 0]
    /\ venue_leverage = [s \in Symbols |-> 0]

\* The fields of the gateway that a call leaves alone apart from the lock.
gwCallFields == <<now, last_api_call_time, max_retries, pc, attempt, wake, received,
                  call_owner, responses, attempts_made, sleeps, raised>>

\* Task t enters api_retry: it takes self._lock, or waits for it in line.
ApiCall(t) ==
    IF lock = NoTask
    THEN lock' = t /\ UNCHANGED lock_waiters
    ELSE lock_waiters' = Append(lock_waiters, t) /\ UNCHANGED lock

\* Task t leaves api_retry: the lock goes to the first waiter.
ApiReturn(t) ==
    /\ lock = t
    /\ IF lock_waiters = <<>>
       THEN lock' = NoTask /\ UNCHANGED lock_waiters
       ELSE lock' = Head(lock_waiters) /\ lock_waiters' = Tail(lock_waiters)

\* What no step of the two leverage calls changes.
LeverageCallFrame ==
    /\ UNCHANGED <<position_lock, active_trades, stop_orders, orders, submitted,
                   take_profit_orders, venue>>
    /\ UNCHANGED <<gwCallFields, poolVars, riskVars>>

\* set_leverage(symbol, leverage) to its suspension in api_retry.
SetLeverage(t, symbol, leverage) ==
    /\ pm_pc[t] = "idle"
    /\ pm_pc' = [pm_pc EXCEPT ![t] = "futures_change_leverage"]
    /\ pm_frame' = [pm_frame EXCEPT ![t] =
           [op |-> "set_leverage", symbol |-> symbol, leverage |-> leverage]]
    /\ ApiCall(t)
    /\ UNCHANGED leverageVars
    /\ LeverageCallFrame

\* futures_change_leverage answered with the leverage the venue has set, and
\* set_leverage stores it; or api_retry raised, and exception_handler raises.
SetLeverageReturned(t, succeeded) ==
    /\ pm_pc[t] = "futures_change_leverage"
    /\ ApiReturn(t)
    /\ LET f == pm_frame[t]
       IN IF succeeded
          THEN /\ venue_leverage' = [venue_leverage EXCEPT ![f.symbol] = f.leverage]
               /\ leverage_cache' = [leverage_cache EXCEPT ![f.symbol] = f.leverage]
               /\ pm_frame' = [pm_frame EXCEPT ![t] =
                      [op |-> "none", returned |-> "result", symbol |-> f.symbol,
                       leverage |-> f.leverage, exchange_call |-> TRUE]]
          ELSE /\ UNCHANGED leverageVars
               /\ pm_frame' = [pm_frame EXCEPT ![t] = NoFrame]
    /\ pm_pc' = [pm_pc EXCEPT ![t] = "idle"]
    /\ LeverageCallFrame

\* get_leverage_for_symbol(symbol): the cached value, or on to the exchange.
GetLeverageForSymbol(t, symbol) ==
    /\ pm_pc[t] = "idle"
    /\ IF leverage_cache[symbol] # 0
       THEN /\ pm_frame' = [pm_frame EXCEPT ![t] =
                   [op |-> "none", returned |-> "leverage", symbol |-> symbol,
                    leverage |-> leverage_cache[symbol], exchange_call |-> FALSE]]
            /\ UNCHANGED <<pm_pc, lock, lock_waiters>>
       ELSE /\ pm_pc' = [pm_pc EXCEPT ![t] = "futures_leverage_bracket"]
            /\ pm_frame' = [pm_frame EXCEPT ![t] =
                   [op |-> "get_leverage_for_symbol", symbol |-> symbol]]
            /\ ApiCall(t)
    /\ UNCHANGED leverageVars
    /\ LeverageCallFrame

\* futures_leverage_bracket answered with initialLeverage = initial_leverage,
\* which is stored and returned; 0 stands for an empty answer and for an
\* exception, after which the default is returned.
LeverageBracketReturned(t, initial_leverage) ==
    /\ pm_pc[t] = "futures_leverage_bracket"
    /\ ApiReturn(t)
    /\ LET f == pm_frame[t]
       IN /\ leverage_cache' = IF initial_leverage # 0
                               THEN [leverage_cache EXCEPT ![f.symbol] = initial_leverage]
                               ELSE leverage_cache
          /\ pm_frame' = [pm_frame EXCEPT ![t] =
                 [op |-> "none", returned |-> "leverage", symbol |-> f.symbol,
                  leverage |-> IF initial_leverage # 0 THEN initial_leverage ELSE 1,
                  exchange_call |-> TRUE]]
    /\ pm_pc' = [pm_pc EXCEPT ![t] = "idle"]
    /\ UNCHANGED venue_leverage
    /\ LeverageCallFrame

-----------------------------------------------------------------------------
(***************************************************************************)
(* Specifications                                                          *)
(***************************************************************************)

\* Each part at rest, for the specifications of the other parts.
GwQuiet == GwInit /\ LeverageInit /\ max_retries = MaxRetriesBound
PoolQuiet == PoolInit /\ max_pool_size = MaxPoolSize
RiskQuiet == RiskInit /\ initial_balance = 1000
PmQuiet == PmInit

\* ---- specification of the gateway: concurrent calls of api_retry ----

InitGateway == GwInit /\ LeverageInit /\ PoolQuiet /\ RiskQuiet /\ PmQuiet

SpecGateway == InitGateway /\ [][NextGateway]_vars

\* ---- specification of the pool: upserts, evictions and scores ----

\* Recorded failures and successes, over all symbols, in one behaviour.
MaxPoolFailures == 1
MaxPoolSuccesses == 3

\* Inputs of a refresh: 24h price change (percent), market volatility score
\* and technical sub-score.
PoolPriceChanges == {11}
PoolVolatilityScores == {4}
PoolTechnicalScores == {0}

FailureCounts == [s \in Symbols |-> attempt_failures[s].count]

NextPool ==
    \/ \E s \in Symbols, p \in PoolPriceChanges, v \in PoolVolatilityScores,
          ts \in PoolTechnicalScores : RefreshTarget(s, p, v, ts)
    \/ \E s \in Symbols :
          /\ SumOver(FailureCounts, Symbols) < MaxPoolFailures
          /\ RecordAttemptFailure(s)
    \/ \E s \in Symbols :
          /\ SumOver(success_history, Symbols) < MaxPoolSuccesses
          /\ RecordSuccess(s)
    \/ /\ current_time < PenaltyWindowLong
       /\ PoolAdvance(PenaltyWindow)

InitPool == GwQuiet /\ PoolInit /\ RiskQuiet /\ PmQuiet

SpecPool == InitPool /\ [][NextPool]_vars

\* ---- specification of the leverage cache: both loops reach the gateway ----

\* The symbols, the leverages asked for and the answers of the bracket query.
LeverageSymbols == {"BTCUSDT", "ETHUSDT"}
Leverages == {5, 10}
InitialLeverages == {0, 20}

NextLeverage ==
    \/ \E t \in Tasks, s \in LeverageSymbols, l \in Leverages : SetLeverage(t, s, l)
    \/ \E t \in Tasks, succeeded \in BOOLEAN : SetLeverageReturned(t, succeeded)
    \/ \E t \in Tasks, s \in LeverageSymbols : GetLeverageForSymbol(t, s)
    \/ \E t \in Tasks, l \in InitialLeverages : LeverageBracketReturned(t, l)

InitLeverage == GwQuiet /\ PoolQuiet /\ RiskQuiet /\ PmQuiet

SpecLeverage == InitLeverage /\ [][NextLeverage]_vars

\* ---- specification of the score: refreshes over the 24h price moves ----

\* The 24h price changes of a refresh, in percent, on both sides of the
\* thresholds 2, 5 and 10; the market is calm and there is no technical data.
ScorePriceChanges == {-10, 1, 2, 4, 5, 10, 11}

NextScore ==
    \E s \in Symbols, p \in ScorePriceChanges : RefreshTarget(s, p, 1, 0)

InitScore == GwQuiet /\ PoolQuiet /\ RiskQuiet /\ PmQuiet

SpecScore == InitScore /\ [][NextScore]_vars

\* ---- specification of the cooldown: failures, the clock, top targets ----

\* Recorded failures over all symbols, and clock ticks of CoolingStep.
MaxCoolFailures == 13
MaxCoolTicks == 12

\* The count argument of get_top_targets: fewer than the pool holds, or all.
TopCounts == {1, 2}

\* The pool after BTCUSDT was refreshed with an 11% move in a volatile
\* market and ETHUSDT with a 3% move in a calm one.
CooldownInit ==
    /\ current_time = 0
    /\ max_pool_size = MaxPoolSize
    /\ targets = <<"BTCUSDT", "ETHUSDT">>
    /\ score = [s \in Symbols |-> IF s = "BTCUSDT" THEN 80 * ScoreUnit
                                  ELSE IF s = "ETHUSDT" THEN 60 * ScoreUnit ELSE 0]
    /\ price_change_24h = [s \in Symbols |-> IF s = "BTCUSDT" THEN 11
                                             ELSE IF s = "ETHUSDT" THEN 3 ELSE 0]
    /\ attempt_failures = [s \in Symbols |-> [count |-> 0, last_failure |-> 0]]
    /\ success_history = [s \in Symbols |-> 0]
    /\ evicted = <<>>
    /\ top = NotCalled

NextCooldown ==
    \/ \E s \in SeqToSet(targets) :
          /\ SumOver(FailureCounts, Symbols) < MaxCoolFailures
          /\ RecordAttemptFailure(s)
    \/ \E c \in TopCounts, e \in BOOLEAN : GetTopTargets(c, e)
    \/ /\ current_time < MaxCoolTicks * CoolingStep
       /\ PoolAdvance(CoolingStep)

InitCooldown == GwQuiet /\ CooldownInit /\ RiskQuiet /\ PmQuiet

SpecCooldown == InitCooldown /\ [][NextCooldown]_vars

\* ---- specification of the risk limits and the protection mode ----

MaxClockTicks == 3
ClockStep == ExitAfter \div 2
Totals == {1000, 960, 900, 890}
ClosingPnls == {-50, -10, 40}
BtcVolatilities == {3, 4}
RecentAndDayPositions == {<<0, 1>>, <<1, 1>>}

NextRisk ==
    \/ \E total_balance \in Totals, listing \in Listings :
          /\ Len(listing) <= MaxOpenPositions
          /\ daily_pnl.trade_count + ManualTrades(listing) <= MaxDailyTrades
          /\ UpdateAccountInfo(total_balance, listing, "works")
    \/ \E pnl \in ClosingPnls :
          /\ daily_pnl.trade_count < MaxDailyTrades
          /\ RecordClosingTrade(pnl)
    \/ \E v \in BtcVolatilities, rd \in RecentAndDayPositions, x \in BOOLEAN :
          DetectMarketAnomalies(v, rd[1], rd[2], x)
    \/ CheckRiskLimitsCall
    \/ /\ clock < MaxClockTicks * ClockStep
       /\ ClockAdvance(ClockStep)

InitRisk == GwQuiet /\ PoolQuiet /\ RiskInit /\ PmInit

SpecRisk == InitRisk /\ [][NextRisk]_vars

\* ---- specification of position sizing: calls of calculate_position_size ----

AvailableBalances == {0, 16, 400, 1000, 10000}
SizingConfigs ==
    { StrategyConfig("RISK_BASED", 100, 1, TRUE, 10, 3),
      StrategyConfig("RISK_BASED", 100, 1, FALSE, 10, 3),
      StrategyConfig("DYNAMIC", 100, 2, TRUE, 10, 3),
      StrategyConfig("FIXED", 100, 1, TRUE, 10, 3) }
SymbolInfos == { SymbolInfo(5, 1, 3), SymbolInfo(5, 100, 1), SymbolInfo(5, 1000, 0) }
EntryPrices == {50, 100}
StopOffsets == {0, 2, 5}
SignalTypes == {"LONG", "SHORT"}
SignalStrengths == {0, 30, 60, 70, 80, 100}

\* Stops calculate_stop_loss may hand over for an entry, and 0.
StopPrices(entry_price, signal_type) ==
    {0} \cup { IF signal_type = "LONG" THEN entry_price - o ELSE entry_price + o :
               o \in StopOffsets }

\* The risk manager with an account snapshot taken, protection on or off.
SizingInit ==
    /\ clock = 0
    /\ protection_mode \in BOOLEAN
    /\ protection_reason = IF protection_mode THEN "btc_volatility" ELSE NoReason
    /\ protection_start_time = IF protection_mode THEN 0 ELSE NoTime
    /\ initial_balance \in AvailableBalances
    /\ balances = [total |-> initial_balance, available |-> initial_balance]
    /\ peak_balance = initial_balance
    /\ drawdown = 0
    /\ open_positions \in { SubSeq(PositionBook, 1, n) : n \in 0..2 }
    /\ daily_pnl = [total_pnl |-> 0, trade_count |-> 0]
    /\ limits = NotChecked
    /\ sizing = NotSized
    /\ recorded = <<>>

\* One call at a time: the caller takes the returned pair before the next.
NextSizing ==
    \/ /\ ~sizing.called
       /\ \E cfg \in SizingConfigs, info \in SymbolInfos, entry_price \in EntryPrices,
             signal_type \in SignalTypes, signal_strength \in SignalStrengths :
              \E stop_loss_price \in StopPrices(entry_price, signal_type) :
                  CalculatePositionSizeCall(cfg, info, entry_price, stop_loss_price,
                                            signal_type, signal_strength)
    \/ /\ sizing.called
       /\ PositionSizeTaken

InitSizing == GwQuiet /\ PoolQuiet /\ SizingInit /\ PmQuiet

SpecSizing == InitSizing /\ [][NextSizing]_vars

\* ---- specification of entries: open_position against the protection mode ----

SignalTask == "main_loop"
EntrySymbols == {"BTCUSDT", "ETHUSDT"}
MarkPrices == {0, 100}
EntryStrengths == {60, 100}

\* The risk manager with an account snapshot taken: no position, or one.
EntryInit ==
    /\ clock = 0
    /\ protection_mode = FALSE
    /\ protection_reason = NoReason
    /\ protection_start_time = NoTime
    /\ initial_balance = 1000
    /\ balances = [total |-> initial_balance, available |-> initial_balance]
    /\ peak_balance = initial_balance
    /\ drawdown = 0
    /\ open_positions \in { SubSeq(PositionBook, 1, n) : n \in 0..1 }
    /\ daily_pnl = [total_pnl |-> 0, trade_count |-> 0]
    /\ limits = NotChecked
    /\ sizing = NotSized
    /\ recorded = <<>>

NextEntry ==
    \/ \E symbol \in EntrySymbols, signal_type \in SignalTypes,
          signal_strength \in EntryStrengths :
          OpenPosition(SignalTask, symbol, signal_type, signal_strength)
    \/ \E current_price \in MarkPrices : MarkPriceReturned(SignalTask, current_price)
    \/ MarginTypeSet(SignalTask)
    \/ LeverageSet(SignalTask)
    \/ EntryOrderFilled(SignalTask)
    \/ \E placed \in BOOLEAN : StopOrderReturned(SignalTask, placed)
    \/ \E sink \in Sinks : TakeProfitOrderReturned(SignalTask, sink)
    \/ OpenPositionRaised(SignalTask)
    \/ \E v \in BtcVolatilities : DetectMarketAnomalies(v, 0, 1, FALSE)

InitEntry == GwQuiet /\ PoolQuiet /\ EntryInit /\ PmInit

SpecEntry == InitEntry /\ [][NextEntry]_vars

\* ---- specification of a cycle: entries for one symbol after the other ----

\* The symbols of the cycle that hold no position yet, and the order in which
\* the venue lists positions.
CycleSymbols == {"ETHUSDT", "BNBUSDT"}
CycleOrder == <<"BTCUSDT", "ETHUSDT", "BNBUSDT">>

\* get_open_positions answered from what the venue holds, each position at
\* its entry price.
CycleListing ==
    LET held == SelectSeq(CycleOrder, LAMBDA s : /\ venue[s].side # "NONE"
                                                  /\ venue[s].amount \div QtyUnit # 0)
    IN [i \in 1..Len(held) |->
           LET h == venue[held[i]]
               coins == h.amount \div QtyUnit
           IN Position(held[i], h.side, IF h.side = "LONG" THEN coins ELSE -coins,
                       h.entry_price, h.entry_price, h.leverage)]

\* The morning after the bot opened a LONG position of BTCUSDT at 100: the
\* position is listed, its stop and take-profit orders are live, and no trade
\* has been counted for the day.
CycleInit ==
    /\ clock = 0
    /\ protection_mode = FALSE
    /\ protection_reason = NoReason
    /\ protection_start_time = NoTime
    /\ initial_balance = 1000
    /\ balances = [total |-> initial_balance, available |-> initial_balance]
    /\ peak_balance = initial_balance
    /\ drawdown = 0
    /\ open_positions = SubSeq(PositionBook, 1, 1)
    /\ daily_pnl = [total_pnl |-> 0, trade_count |-> 0]
    /\ limits = NotChecked
    /\ sizing = NotSized
    /\ recorded = <<>>
    /\ position_lock = NoTask
    /\ pm_pc = [t \in Tasks |-> "idle"]
    /\ pm_frame = [t \in Tasks |-> NoFrame]
    /\ active_trades = [s \in Symbols |->
                           IF s = "BTCUSDT"
                           THEN [present |-> TRUE, partially_closed |-> FALSE]
                           ELSE NoTrade]
    /\ stop_orders = [s \in Symbols |->
                         IF s = "BTCUSDT"
                         THEN CalculateStopLoss(100, "LONG", 1) * PriceUnit
                         ELSE NoStop]
    /\ orders = <<>>
    /\ submitted = NoOrder
    /\ take_profit_orders = [s \in Symbols |->
                                IF s = "BTCUSDT" THEN TakeProfitTargets ELSE NoLevels]
    /\ venue = VenueHolding(open_positions, 1, TakeProfitTargets)

NextCycle ==
    \* _main_loop: the refresh at the start of a cycle
    \/ \E sink \in Sinks :
          /\ pm_pc[SignalTask] = "idle"
          /\ UpdateAccountInfo(balances.total, CycleListing, sink)
    \* _main_loop: a signal for the next symbol of the cycle
    \/ \E symbol \in CycleSymbols, signal_type \in SignalTypes :
          OpenPosition(SignalTask, symbol, signal_type, 60)
    \/ MarkPriceReturned(SignalTask, 100)
    \/ MarginTypeSet(SignalTask)
    \/ LeverageSet(SignalTask)
    \/ EntryOrderFilled(SignalTask)
    \/ \E placed \in BOOLEAN : StopOrderReturned(SignalTask, placed)
    \/ \E sink \in Sinks : TakeProfitOrderReturned(SignalTask, sink)
    \/ OpenPositionRaised(SignalTask)

InitCycle == GwQuiet /\ PoolQuiet /\ CycleInit

SpecCycle == InitCycle /\ [][NextCycle]_vars

\* ---- specification of the trailing stop: both loops on one open position ----

MonitorTask == "position_monitor_loop"
TrailSymbol == "BTCUSDT"
TrailMarks == {95, 100, 105, 110}
SignalPrices == {9850, 10050, 10150}
Signals == {"LONG", "SHORT", "NEUTRAL"}

\* The position of TrailSymbol with its mark price at mark.
Marked(position, mark) == [position EXCEPT !.mark_price = mark]

\* A position the bot opened at 100 with its stop at 2 percent, as the next
\* update_account_info listed it.
TrailInit ==
    /\ clock = 0
    /\ protection_mode = FALSE
    /\ protection_reason = NoReason
    /\ protection_start_time = NoTime
    /\ initial_balance = 1000
    /\ balances = [total |-> initial_balance, available |-> initial_balance]
    /\ peak_balance = initial_balance
    /\ drawdown = 0
    /\ \E side \in SignalTypes :
          /\ open_positions =
                 << Position(TrailSymbol, side, IF side = "LONG" THEN 1 ELSE -1,
                             100, 100, 5) >>
          /\ stop_orders = [s \in Symbols |->
                               IF s = TrailSymbol
                               THEN CalculateStopLoss(100, side, 1) * PriceUnit
                               ELSE NoStop]
    /\ daily_pnl = [total_pnl |-> 0, trade_count |-> 1]
    /\ limits = NotChecked
    /\ sizing = NotSized
    /\ recorded = <<>>
    /\ position_lock = NoTask
    /\ pm_pc = [t \in Tasks |-> "idle"]
    /\ pm_frame = [t \in Tasks |-> NoFrame]
    /\ active_trades = [s \in Symbols |->
                           IF s = TrailSymbol
                           THEN [present |-> TRUE, partially_closed |-> FALSE]
                           ELSE NoTrade]
    /\ orders = << [kind |-> "entry", symbol |-> TrailSymbol] >>
    /\ submitted = NoOrder
    /\ take_profit_orders = [s \in Symbols |->
                                IF s = TrailSymbol THEN TakeProfitTargets ELSE NoLevels]
    /\ venue = VenueHolding(open_positions, 1, TakeProfitTargets)

\* Live stop orders of one symbol on the venue, in one behaviour.
MaxLiveStops == 3

NextTrailing ==
    \* _position_monitor_loop: the refresh of the account, then the handler
    \/ \E mark \in TrailMarks :
          /\ pm_pc[MonitorTask] = "idle"
          /\ UpdateAccountInfo(balances.total,
                               << Marked(Head(open_positions), mark) >>, "works")
    \/ /\ open_positions # <<>>
       /\ UpdateTrailingStop(MonitorTask, Head(open_positions).symbol,
                             Head(open_positions).mark_price * PriceUnit)
    \* check_and_process_signal: the handler unless the position is to close
    \/ \E current_price \in SignalPrices, signal \in Signals :
          /\ GetPositionForSymbol(TrailSymbol) # <<>>
          /\ ~ShouldClosePosition(TrailSymbol, current_price, signal)
          /\ UpdateTrailingStop(SignalTask, TrailSymbol, current_price)
    \/ \E t \in Tasks, cancelled \in BOOLEAN : PendingOrdersCancelled(t, cancelled)
    \/ \E t \in Tasks, placed \in BOOLEAN, sink \in Sinks :
          /\ placed => venue[TrailSymbol].stops < MaxLiveStops
          /\ StopOrderReplaced(t, placed, sink)

InitTrailing == GwQuiet /\ PoolQuiet /\ TrailInit

SpecTrailing == InitTrailing /\ [][NextTrailing]_vars

\* ---- specification of the held position: the signal and the refreshes ----

NextHold ==
    \/ \E mark \in TrailMarks :
          /\ pm_pc[MonitorTask] = "idle"
          /\ UpdateAccountInfo(balances.total,
                               << Marked(Head(open_positions), mark) >>, "works")
    \/ \E current_price \in SignalPrices, signal \in Signals :
          ProcessSignalHold(SignalTask, TrailSymbol, signal, current_price)
    \/ \E cancelled \in BOOLEAN : PendingOrdersCancelled(SignalTask, cancelled)
    \/ \E placed \in BOOLEAN, sink \in Sinks :
          /\ placed => venue[TrailSymbol].stops < MaxLiveStops
          /\ HoldStopOrderReplaced(SignalTask, placed, sink)

InitHold == GwQuiet /\ PoolQuiet /\ TrailInit

SpecHold == InitHold /\ [][NextHold]_vars

\* ---- specification of the partial close: both loops on one open position ----

MaxOrders == 3
PartialAmount == 16
PartialMarks == {95, 100, 103, 105}

\* Coins the partial closes of symbol took off the position, in 1/QtyUnit.
RECURSIVE ClosedQuantity(_, _)
ClosedQuantity(log, symbol) ==
    IF log = <<>> THEN 0
    ELSE (IF Head(log).kind = "partial_close" /\ Head(log).symbol = symbol
          THEN Head(log).quantity ELSE 0) + ClosedQuantity(Tail(log), symbol)

\* What get_open_positions lists for the position now: its amount less the
\* coins closed, at the mark price mark; nothing once no coin is left.
VenueListing(position, mark) ==
    LET left == Abs(PartialAmount) * QtyUnit - ClosedQuantity(orders, position.symbol)
    IN IF left <= 0 THEN <<>>
       ELSE << [position EXCEPT
                   !.amount = IF position.side = "LONG" THEN left \div QtyUnit
                              ELSE -(left \div QtyUnit),
                   !.mark_price = mark] >>

\* A position at entry price 100 that the bot opened (an active trade and a
\* stop order exist), or one that update_account_info found on the venue.
PartialInit ==
    /\ clock = 0
    /\ protection_mode = FALSE
    /\ protection_reason = NoReason
    /\ protection_start_time = NoTime
    /\ initial_balance = 1000
    /\ balances = [total |-> initial_balance, available |-> initial_balance]
    /\ peak_balance = initial_balance
    /\ drawdown = 0
    /\ \E side \in SignalTypes, opened_by_bot \in BOOLEAN :
          /\ open_positions =
                 << Position(TrailSymbol, side,
                             IF side = "LONG" THEN PartialAmount ELSE -PartialAmount,
                             100, 100, 5) >>
          /\ stop_orders = [s \in Symbols |->
                               IF s = TrailSymbol /\ opened_by_bot
                               THEN CalculateStopLoss(100, side, 1) * PriceUnit
                               ELSE NoStop]
          /\ active_trades = [s \in Symbols |->
                                 IF s = TrailSymbol /\ opened_by_bot
                                 THEN [present |-> TRUE, partially_closed |-> FALSE]
                                 ELSE NoTrade]
          /\ orders = IF opened_by_bot
                      THEN << [kind |-> "entry", symbol |-> TrailSymbol] >>
                      ELSE <<>>
          /\ take_profit_orders = [s \in Symbols |->
                                      IF s = TrailSymbol /\ opened_by_bot
                                      THEN TakeProfitTargets ELSE NoLevels]
          /\ venue = IF opened_by_bot
                     THEN VenueHolding(open_positions, 1, TakeProfitTargets)
                     ELSE VenueHolding(open_positions, 0, 0)
    /\ daily_pnl = [total_pnl |-> 0, trade_count |-> 1]
    /\ limits = NotChecked
    /\ sizing = NotSized
    /\ recorded = <<>>
    /\ position_lock = NoTask
    /\ pm_pc = [t \in Tasks |-> "idle"]
    /\ pm_frame = [t \in Tasks |-> NoFrame]
    /\ submitted = NoOrder

NextPartial ==
    \* _position_monitor_loop: the refresh of the account, then the handler
    \/ \E mark \in PartialMarks :
          /\ pm_pc[MonitorTask] = "idle"
          /\ open_positions # <<>>
          /\ UpdateAccountInfo(balances.total,
                               VenueListing(Head(open_positions), mark), "works")
    \/ /\ open_positions # <<>>
       /\ Len(orders) < MaxOrders
       /\ ProcessPartialClose(MonitorTask, Head(open_positions).symbol,
                              Head(open_positions).mark_price * PriceUnit)
    \* check_and_process_signal: the handler unless the position is to close
    \/ \E current_price \in SignalPrices, signal \in Signals :
          /\ GetPositionForSymbol(TrailSymbol) # <<>>
          /\ ~ShouldClosePosition(TrailSymbol, current_price, signal)
          /\ Len(orders) < MaxOrders
          /\ ProcessPartialClose(SignalTask, TrailSymbol, current_price)
    \/ \E t \in Tasks, sink \in Sinks : PartialCloseFilled(t, sink)
    \/ \E t \in Tasks : PartialCloseFailed(t)

InitPartial == GwQuiet /\ PoolQuiet /\ PartialInit

SpecPartial == InitPartial /\ [][NextPartial]_vars

\* ---- specification of the lifecycle of one position ----
\*
\* The main loop refreshes the account and hands a signal for LifeSymbol to
\* check_and_process_signal; the position monitor loop refreshes the account
\* and moves the trailing stop of the listed position.

\* The signals acted on while fewer than this many orders were sent.
MaxLifeOrders == 2

LifeSymbol == "BTCUSDT"
\* Mark prices of LifeSymbol in USDT, and the last prices of its signals.
LifeMarks == {50, 52}
LifePrices == {m * PriceUnit : m \in LifeMarks}

\* A position of two coins found on the exchange.
FoundPosition == Position(LifeSymbol, "LONG", 2, 50, 50, 5)

\* get_open_positions answered from what the venue holds, at mark price mark.
GetOpenPositions(mark) ==
    LET h == venue[LifeSymbol]
        coins == h.amount \div QtyUnit
    IN IF h.side = "NONE" \/ coins = 0 THEN <<>>
       ELSE << Position(LifeSymbol, h.side,
                        IF h.side = "LONG" THEN coins ELSE -coins,
                        h.entry_price, mark, h.leverage) >>

\* check_and_process_signal(symbol, signal) with signal['signal'] = signal,
\* signal['last_price'] = last_price, up to the first suspension of the
\* handler it calls first.
CheckAndProcessSignal(t, symbol, signal, last_price, signal_strength) ==
    IF GetPositionForSymbol(symbol) = <<>>
    THEN /\ signal \in SignalTypes
         /\ OpenPosition(t, symbol, signal, signal_strength)
    ELSE IF ShouldClosePosition(symbol, last_price, signal)
    THEN ClosePosition(t, symbol, IF signal \in SignalTypes THEN signal ELSE "NONE",
                       signal_strength)
    ELSE UpdateTrailingStop(t, symbol, last_price)

LifecycleInit ==
    /\ clock = 0
    /\ protection_mode = FALSE
    /\ protection_reason = NoReason
    /\ protection_start_time = NoTime
    /\ initial_balance = 1000
    /\ balances = [total |-> initial_balance, available |-> initial_balance]
    /\ peak_balance = initial_balance
    /\ drawdown = 0
    /\ open_positions \in { <<>>, << FoundPosition >> }
    /\ daily_pnl = [total_pnl |-> 0, trade_count |-> 0]
    /\ limits = NotChecked
    /\ sizing = NotSized
    /\ recorded = <<>>

NextLifecycle ==
    \* both loops: the refresh of the account
    \/ \E t \in Tasks, mark \in LifeMarks, sink \in Sinks :
          /\ pm_pc[t] = "idle"
          /\ UpdateAccountInfo(balances.total, GetOpenPositions(mark), sink)
    \* _main_loop: a signal for the symbol
    \/ \E signal \in Signals, last_price \in LifePrices :
          /\ Len(orders) < MaxLifeOrders
          /\ CheckAndProcessSignal(SignalTask, LifeSymbol, signal, last_price, 60)
    \* _position_monitor_loop: the trailing stop of the listed position
    \/ /\ open_positions # <<>>
       /\ UpdateTrailingStop(MonitorTask, Head(open_positions).symbol,
                             Head(open_positions).mark_price * PriceUnit)
    \* the venue answers the call a task is suspended in
    \/ MarkPriceReturned(SignalTask, 50)
    \/ MarginTypeSet(SignalTask)
    \/ LeverageSet(SignalTask)
    \/ EntryOrderFilled(SignalTask)
    \/ \E placed \in BOOLEAN : StopOrderReturned(SignalTask, placed)
    \/ \E sink \in Sinks : TakeProfitOrderReturned(SignalTask, sink)
    \/ OpenPositionRaised(SignalTask)
    \/ \E cancelled \in BOOLEAN : ClosePositionOrdersCancelled(SignalTask, cancelled)
    \/ \E sink \in Sinks : ClosePositionFilled(SignalTask, sink)
    \/ ClosePositionFailed(SignalTask)
    \/ \E t \in Tasks : PendingOrdersCancelled(t, TRUE)
    \/ \E t \in Tasks, placed \in BOOLEAN, sink \in Sinks :
          /\ placed => venue[LifeSymbol].stops < MaxLiveStops
          /\ StopOrderReplaced(t, placed, sink)

InitLifecycle == GwQuiet /\ PoolQuiet /\ LifecycleInit /\ PmInit

SpecLifecycle == InitLifecycle /\ [][NextLifecycle]_vars

\* The venue answers the call task t is suspended in: one of the steps that
\* resume t.
Answered(t) ==
    \/ MarkPriceReturned(t, 50)
    \/ MarginTypeSet(t)
    \/ LeverageSet(t)
    \/ EntryOrderFilled(t)
    \/ \E placed \in BOOLEAN : StopOrderReturned(t, placed)
    \/ \E sink \in Sinks : TakeProfitOrderReturned(t, sink)
    \/ OpenPositionRaised(t)
    \/ \E cancelled \in BOOLEAN : ClosePositionOrdersCancelled(t, cancelled)
    \/ \E sink \in Sinks : ClosePositionFilled(t, sink)
    \/ ClosePositionFailed(t)
    \/ PendingOrdersCancelled(t, TRUE)
    \/ \E placed \in BOOLEAN, sink \in Sinks :
          /\ placed => venue[LifeSymbol].stops < MaxLiveStops
          /\ StopOrderReplaced(t, placed, sink)

\* One pass of the position monitor loop over the listed position that
\* changes something: the refresh, or the start of update_stop_loss.
MonitorPass ==
    \/ \E mark \in LifeMarks :
          /\ pm_pc[MonitorTask] = "idle"
          /\ UpdateAccountInfo(balances.total, GetOpenPositions(mark), "works")
    \/ /\ open_positions # <<>>
       /\ UpdateTrailingStop(MonitorTask, Head(open_positions).symbol,
                             Head(open_positions).mark_price * PriceUnit)

\* The lifecycle with every awaited gateway call answered in the end and the
\* monitor loop running for ever (main.py: "while not shutdown_event.is_set()"
\* with a sleep of 10 s).
SpecLifecycleFair ==
    /\ SpecLifecycle
    /\ \A t \in Tasks : WF_vars(Answered(t))
    /\ WF_vars(MonitorPass)

\* ---- specification of the refresh: both loops call update_account_info ----

\* The account at the instants the refreshes are made: the balance falls as
\* positions are opened by hand, and it has risen once with none open.
Accounts ==
    { Account(1010, <<>>),
      Account(1000, <<>>),
      Account(990, SubSeq(PositionBook, 1, 1)),
      Account(980, SubSeq(PositionBook, 1, 2)) }

NextRefresh ==
    \/ \E t \in Tasks, account \in Accounts :
          /\ daily_pnl.trade_count < MaxDailyTrades
          /\ RefreshBegin(t, account)
    \/ \E t \in Tasks : RefreshBalanceReturned(t)
    \/ \E t \in Tasks : RefreshBalanceFailed(t)
    \/ \E t \in Tasks, failed \in BOOLEAN, sink \in Sinks :
          RefreshPositionsReturned(t, failed, sink)

InitRefresh == GwQuiet /\ PoolQuiet /\ RiskQuiet /\ PmInit

SpecRefresh == InitRefresh /\ [][NextRefresh]_vars

-----------------------------------------------------------------------------
(***************************************************************************)
(* Pool claims                                                             *)
(***************************************************************************)

\* C7: the pool never holds more than max_pool_size entries.
C7_PoolSizeBounded == Len(targets) <= max_pool_size

C7_Witness ==
    /\ evicted # <<>>
    /\ Len(targets) = max_pool_size
    /\ max_pool_size = MaxPoolSize

\* C8: every entry an upsert evicted scored no higher than any entry that
\* stayed, and no evicted entry scored strictly higher than all others.
C8_EvictsLowest ==
    \A i \in 1..Len(evicted) :
        /\ \A s \in SeqToSet(targets) : evicted[i].score <= score[s]
        /\ \/ \E s \in SeqToSet(targets) : score[s] >= evicted[i].score
           \/ \E j \in 1..Len(evicted) : j # i /\ evicted[j].score >= evicted[i].score

C8_Witness ==
    /\ evicted # <<>>
    /\ \E s \in SeqToSet(targets) : score[s] > evicted[1].score
    /\ \E s \in SeqToSet(targets) : score[s] = evicted[1].score

\* C9: the score of every entry of the pool lies in [0, 100].
C9_ScoreInRange ==
    \A s \in SeqToSet(targets) : 0 <= score[s] /\ score[s] <= MaxScore

\* C10: get_top_targets(exclude_cooling=True) leaves out a symbol with k
\* recorded failures at every time less than min(3600, k*300) seconds after
\* its last failure, and does not leave it out for cooldown at or after it.
C10_CooldownWindow ==
    (top.called /\ top.exclude_cooling) =>
        \A s \in Symbols :
            LET k == attempt_failures[s].count
                since == current_time - attempt_failures[s].last_failure
                window == IF k * 300 < 3600 THEN k * 300 ELSE 3600
            IN k > 0 =>
                /\ since < window => s \notin SeqToSet(top.result)
                /\ (since >= window /\ s \in SeqToSet(targets)
                        /\ top.count >= Len(targets)) => s \in SeqToSet(top.result)

\* The cap is reached: 13 failures, 3600 s later, listed again.
C10_Witness ==
    /\ top.called /\ top.exclude_cooling
    /\ \E s \in SeqToSet(top.result) :
          /\ attempt_failures[s].count = 13
          /\ current_time - attempt_failures[s].last_failure = 3600

\* C11: get_top_targets(count, exclude_cooling) returns at most count symbols,
\* all of them in the pool, in non-increasing order of score, and a pool symbol
\* left out scores higher than a returned one only if it was filtered out for
\* cooldown.
C11_TopTargetsOrdered ==
    top.called =>
        LET res == top.result
        IN /\ Len(res) <= top.count
           /\ \A i \in 1..Len(res) : res[i] \in SeqToSet(targets)
           /\ \A i, j \in 1..Len(res) : i < j => score[res[i]] >= score[res[j]]
           /\ \A s \in SeqToSet(targets) \ SeqToSet(res) :
                  \A i \in 1..Len(res) :
                      score[s] > score[res[i]] =>
                          (top.exclude_cooling /\ IsSymbolCoolingDown(s))

\* The pool holds more than count symbols, none was filtered, and the one
\* listed first is not the one stored first.
C11_Witness ==
    /\ top.called /\ ~top.exclude_cooling
    /\ top.count < Len(targets)
    /\ Len(top.result) = top.count
    /\ top.result[1] # targets[1]

-----------------------------------------------------------------------------
(***************************************************************************)
(* Risk claims                                                             *)
(***************************************************************************)

\* Today's PnL as a percentage of the initial balance against a threshold.
TodayPnlPctAbove(threshold) ==
    initial_balance > 0 /\ daily_pnl.total_pnl * 100 > threshold * initial_balance

TodayPnlPctBelow(threshold) ==
    initial_balance > 0 /\ daily_pnl.total_pnl * 100 < threshold * initial_balance

\* The sum over the open positions of notional / (balance * leverage), as a
\* percentage, is above the threshold.
AggregateRiskAbove(threshold) ==
    /\ balances.total > 0
    /\ \A i \in 1..Len(open_positions) : open_positions[i].leverage > 0
    /\ LET common == LeverageProduct(open_positions)
       IN SumOver([s \in Symbols |->
                     IF \E i \in 1..Len(open_positions) : open_positions[i].symbol = s
                     THEN LET pos == CHOOSE p \in SeqToSet(open_positions) : p.symbol = s
                          IN (Abs(pos.amount) * pos.mark_price * 100 * common) \div pos.leverage
                     ELSE 0], Symbols)
              > threshold * balances.total * common

C14_ProtectionExit ==
    [][protection_mode =>
          IF ~protection_mode'
          THEN \/ clock - protection_start_time >= 7200
               \/ drawdown < 3 * PctUnit
          ELSE /\ protection_reason' = protection_reason
               /\ protection_start_time' = protection_start_time]_vars

\* Protection mode is still ON exactly two hours after it was entered, the
\* drawdown being 3% or more, and the limits were checked then.
C14_Witness ==
    /\ protection_mode
    /\ clock - protection_start_time = 7200
    /\ drawdown >= 3 * PctUnit
    /\ limits.called /\ ~limits.value

-----------------------------------------------------------------------------
(***************************************************************************)
(* Sizing claims                                                           *)
(***************************************************************************)

FracLeq(x, y) == x.num * y.den <= y.num * x.den

\* The call recorded in sizing, made again with another signal strength.
SizedAt(signal_strength) ==
    CalculatePositionSize(sizing.cfg, sizing.info, sizing.entry_price,
                          sizing.stop_loss_price, sizing.signal_type, signal_strength)

\* C15: with all other inputs equal and protection off, for strengths
\* s1 <= s2 the notional and the returned quantity at s2 are at least those
\* at s1.
C15_MonotonicInStrength ==
    (sizing.called /\ ~protection_mode) =>
        \A s1 \in SignalStrengths :
            s1 <= sizing.signal_strength =>
                /\ SizedAt(s1).quantity <= sizing.result.quantity
                /\ FracLeq(SizedAt(s1).notional, sizing.result.notional)

\* C16: the quantity returned is at most
\* availableBalance * 0.25 / entryPrice * leverage, leverage being the one
\* returned with it.
C16_QuantityCapped ==
    sizing.called =>
        /\ sizing.result.quantity * 4 * sizing.entry_price
               <= balances.available * sizing.result.leverage * QtyUnit
        /\ sizing.result.quantity > 0 =>
               FracLeq(sizing.result.notional, Frac(balances.available, 4))

\* The cap decided the quantity: the uncapped notional was above a quarter of
\* the balance and the quantity returned is exactly the bound.
C16_Witness ==
    /\ sizing.called
    /\ sizing.result.quantity > 0
    /\ FracLess(sizing.result.notional, sizing.result.uncapped)
    /\ sizing.result.quantity * 4 * sizing.entry_price
           = balances.available * sizing.result.leverage * QtyUnit

\* Scenario A: LONG, strength 80, entry 100, stop 98, balance 10,000, risk 1%,
\* auto leverage up to 10, RISK_BASED, protection off.
ScenarioA ==
    /\ sizing.called /\ ~protection_mode
    /\ sizing.cfg = StrategyConfig("RISK_BASED", 100, 1, TRUE, 10, 3)
    /\ sizing.signal_type = "LONG" /\ sizing.signal_strength = 80
    /\ sizing.entry_price = 100 /\ sizing.stop_loss_price = 98
    /\ balances.available = 10000

\* C17: in scenario A calculate_position_size yields leverage 5, a notional of
\* 25,000 capped to 2,500, and returns quantity 25.
C17_ScenarioA ==
    ScenarioA =>
        /\ sizing.result.leverage = 5
        /\ sizing.result.uncapped = Frac(25000, 1)
        /\ sizing.result.notional = Frac(2500, 1)
        /\ sizing.result.quantity = 25 * QtyUnit

\* C18: in FIXED mode with protection off, a fixed amount that is at least
\* the minimum notional and converts to at least one lot step gives a non-zero
\* quantity, derived from min(fixed amount, 25% of the available balance).
C18_FixedSizing ==
    LET target == FracMin(Frac(sizing.cfg.fixed_position_size, 1),
                          MaxPositionUsdt(balances.available))
    IN (/\ sizing.called /\ ~protection_mode
        /\ sizing.cfg.position_size_type = "FIXED"
        /\ sizing.cfg.fixed_position_size >= sizing.info.min_notional
        /\ target.num * QtyUnit >= target.den * sizing.entry_price * sizing.info.min_qty)
           => /\ sizing.result.quantity # 0
              /\ sizing.result.quantity * sizing.entry_price * target.den
                     >= target.num * QtyUnit - target.den * sizing.entry_price * sizing.info.min_qty


-----------------------------------------------------------------------------
\* Entry claims

\* C12: in every interleaving of open_position with a protection-mode
\* trigger, no entry (non-reduce-only) market order is submitted at a moment
\* when protection_mode is ON.
C12_NoEntryUnderProtection ==
    (submitted.kind = "entry" /\ ~submitted.reduce_only) => ~submitted.protection_mode


-----------------------------------------------------------------------------
\* Trailing stop claims

\* The task whose update_stop_loss call ends in this step, if any.
StopMovers ==
    { t \in Tasks : /\ pm_pc[t] = "create_stop_market_order"
                    /\ pm_frame[t].op = "update_trailing_stop"
                    /\ pm_pc'[t] = "idle" }

\* C19: over any sequence of update_trailing_stop calls on one open
\* position, the tracked stop price only moves in the profit-favourable
\* direction (never down for LONG, never up for SHORT), and a move happens
\* only when the candidate stop is beyond currentStop*(1 + interval/100) for
\* LONG or below currentStop*(1 - interval/100) for SHORT; a price tick that
\* does not pass this threshold places no order.
C19_TrailingStopFavourable ==
    [][\A t \in StopMovers :
          LET symbol == pm_frame[t].symbol
              side == Head(GetPositionForSymbol(symbol)).side
              current_stop == stop_orders[symbol]
          IN (submitted'.kind = "stop" \/ stop_orders'[symbol] # current_stop)
                 => /\ IF side = "LONG" THEN stop_orders'[symbol] >= current_stop
                       ELSE stop_orders'[symbol] <= current_stop
                    /\ PassesThreshold(side, pm_frame[t].candidate, current_stop)]_vars


-----------------------------------------------------------------------------
\* Partial close claims

\* The partial-close orders submitted for symbol since the position opened.
PartialCloses(symbol) ==
    SelectSeq(orders, LAMBDA o : o.kind = "partial_close" /\ o.symbol = symbol)

\* C20: for every open position (opened by the bot or found on the
\* exchange), between its opening and its full close at most one
\* partial-close reduce-only market order is submitted, over any sequence and
\* interleaving of process_partial_close calls from the position-monitor loop
\* and the signal loop.
C20_AtMostOnePartialClose ==
    \A symbol \in Symbols : Len(PartialCloses(symbol)) <= 1


-----------------------------------------------------------------------------
\* Stop replacement claims

\* C23: at most one live stop order exists per symbol on the venue: a
\* replacement stop is placed only after all prior conditional orders of the
\* symbol were cancelled, also when the cancel request fails.
C23_OneLiveStop ==
    \A symbol \in Symbols : venue[symbol].stops <= 1


-----------------------------------------------------------------------------
\* Margin type claims

\* The venue's "No need to change margin type" answer: a BinanceAPIException
\* whose code api_retry has no branch for, like CodeOther.
NoNeedToChangeMarginType == ApiException(CodeOther)

\* set_margin_type for what its api_retry call came back with: its except
\* clause names BinanceAPIException, which no error of exceptions.py is, so an
\* error goes on to the decorator of set_margin_type.
SetMarginType(got) ==
    IF got = "BinanceAPIException" THEN Result
    ELSE IF got \in ErrorKinds THEN ExceptionHandler(TimerDecorator(got))
    ELSE got

\* C28: when the venue answers the margin-type change with "No need to change
\* margin type", set_margin_type reports success without a backoff sleep and
\* without another attempt, so that open_position goes on to set_leverage and
\* the entry order.
C28_MarginUnchangedIsSuccess ==
    (responses # <<>> /\ responses[1] = NoNeedToChangeMarginType) =>
        /\ CallEnded
        /\ sleeps = <<>>
        /\ attempts_made = 1
        /\ SetMarginType(received[call_owner]) = Result


-----------------------------------------------------------------------------
\* Lifecycle claims

\* Task t is inside a lifecycle mutation of symbol: open_position,
\* close_position, update_trailing_stop with update_stop_loss, or
\* process_partial_close, suspended in one of its awaited calls.
Mutating(t, symbol) == pm_pc[t] # "idle" /\ pm_frame[t].symbol = symbol

\* C21: the lifecycle mutations of a symbol (open_position, close_position,
\* update_trailing_stop/update_stop_loss, process_partial_close) are mutually
\* exclusive: no two tasks are inside one at the same time.
C21_MutationsExclusive ==
    \A symbol \in Symbols : Cardinality({ t \in Tasks : Mutating(t, symbol) }) <= 1


\* Task t is inside the close_position that check_and_process_signal called
\* for a signal with which it will call open_position afterwards.
Reversing(t) ==
    /\ pm_pc[t] # "idle"
    /\ pm_frame[t].op = "close_position"
    /\ pm_frame[t].reopen \in SignalTypes

\* C22: when a reversal signal is accepted for an open position,
\* check_and_process_signal closes the position, goes on into open_position
\* for the new direction, and the call returns; an open_position that finds an
\* opposing position closes it first and goes on to the entry order.
C22_ReversalReturns ==
    \A t \in Tasks : Reversing(t) ~> (pm_pc[t] = "idle")


\* The bot's position in symbol is on the venue without a stop order, and no
\* task is about to place one.
StopMissing(symbol) ==
    /\ venue[symbol].side # "NONE"
    /\ venue[symbol].stops = 0
    /\ active_trades[symbol].present
    /\ \A t \in Tasks : pm_pc[t] # "create_stop_market_order"

\* The step in which the stop order of open_position comes back unplaced.
StopPlacementFailed ==
    \E t \in Tasks : /\ pm_pc[t] = "create_stop_market_order"
                     /\ pm_frame[t].op = "open_position"
                     /\ pm_pc'[t] # "create_stop_market_order"
                     /\ stop_orders'[pm_frame[t].symbol] = NoStop

\* C30: when placing the stop order fails after the entry order was filled,
\* the position is not rolled back (it stays open and tracked), and a later
\* cycle of the stop and trailing handlers places a stop order for it.
C30_StopPlacedLater ==
    /\ [][StopPlacementFailed =>
             /\ venue' = venue
             /\ active_trades' = active_trades]_vars
    /\ \A symbol \in Symbols :
          StopMissing(symbol) ~> (venue[symbol].stops > 0 \/ venue[symbol].side = "NONE")


\* The orders the bot submitted for symbol, oldest first.
OrdersFor(symbol) == SelectSeq(orders, LAMBDA o : o.symbol = symbol)

\* The position of symbol was opened by an order of the bot, which tracks it.
BotOpened(symbol) == active_trades[symbol].present

\* The last order the bot submitted for symbol was the close of its position.
BotClosed(symbol) ==
    OrdersFor(symbol) # <<>> /\ OrdersFor(symbol)[Len(OrdersFor(symbol))].kind = "close"

\* C26: a MANUAL_OPEN ledger entry is recorded only for a position that
\* appeared on the exchange without an order of the bot, and a MANUAL_CLOSE
\* entry only for a position that vanished without a close by the bot.
C26_ManualEntriesAreManual ==
    \A i \in 1..Len(recorded) :
        /\ recorded[i].type = "MANUAL_OPEN" => ~BotOpened(recorded[i].symbol)
        /\ recorded[i].type = "MANUAL_CLOSE" => ~BotClosed(recorded[i].symbol)


\* The tasks whose close_position has its market order filled in this step.
Closers ==
    { t \in Tasks : /\ pm_pc[t] = "create_market_order"
                    /\ pm_frame[t].op = "close_position"
                    /\ submitted'.kind = "close" }

\* The realized pnl of closing position at its listed mark price.
RealizedPnl(position) ==
    IF position.side = "LONG"
    THEN (position.mark_price - position.entry_price) * Abs(position.amount)
    ELSE (position.entry_price - position.mark_price) * Abs(position.amount)

\* C24: close_position requests the cancellation of all conditional orders of
\* the symbol before it submits the reduce-only market order for the full
\* position amount; after a successful close the ledger has a CLOSE entry
\* with the realized pnl and the symbol has no entry in active_trades,
\* stop_orders and take_profit_orders.
C24_CloseCancelsThenCloses ==
    [][\A t \in Closers :
          LET f == pm_frame[t]
          IN /\ f.cancel_requested
             /\ submitted'.reduce_only
             /\ submitted'.quantity = Abs(f.position.amount) * QtyUnit
             /\ recorded' = << LedgerEntry("CLOSE", f.symbol, RealizedPnl(f.position)) >>
             /\ ~active_trades'[f.symbol].present
             /\ stop_orders'[f.symbol] = NoStop
             /\ take_profit_orders'[f.symbol] = NoLevels]_vars

\* A position the bot opened, with its stop and take-profit orders tracked,
\* was closed with a gain.
C24_Witness ==
    /\ submitted.kind = "close"
    /\ Len(OrdersFor(LifeSymbol)) >= 2
    /\ OrdersFor(LifeSymbol)[1].kind = "entry"
    /\ BotClosed(LifeSymbol)
    /\ recorded # <<>> /\ recorded[1].type = "CLOSE" /\ recorded[1].pnl > 0
    /\ ~active_trades[LifeSymbol].present
    /\ venue[LifeSymbol].side = "NONE"


\* The tasks whose close_position or open_position ends in this step on a
\* gateway error, its market order not filled.
Aborted ==
    { t \in Tasks : /\ pm_pc[t] \in {"get_mark_price", "set_margin_type", "set_leverage",
                                     "create_market_order", "cancel_all_open_orders"}
                    /\ pm_frame[t].op \in {"open_position", "close_position"}
                    /\ pm_pc'[t] = "idle"
                    /\ orders' = orders }

\* C29: a gateway error that aborts close_position or open_position before
\* its market order is filled leaves the position, the live stop and
\* take-profit orders on the venue and the bookkeeping as they were before
\* the call.
C29_AbortLeavesAllAsBefore ==
    [][\A t \in Aborted :
          LET symbol == pm_frame[t].symbol
          IN /\ venue'[symbol] = pm_frame[t].venue_before
             /\ active_trades'[symbol] = active_trades[symbol]
             /\ stop_orders'[symbol] = stop_orders[symbol]
             /\ take_profit_orders'[symbol] = take_profit_orders[symbol]]_vars


-----------------------------------------------------------------------------
\* Refresh claims

\* C25: at every point where another task can run, the balances and the
\* open-position list the bot holds come from the same refresh:
\* update_account_info replaces both together, or leaves both as they were
\* when a query fails.
C25_SnapshotConsistent ==
    \E account \in Accounts :
        /\ balances.total = account.total
        /\ open_positions = account.listing


\* The tasks whose handler ends in this step with its work done: the last
\* take-profit order of open_position placed, the closing order of
\* close_position (with nothing to reopen) or of process_partial_close
\* filled and recorded, the new stop order of update_stop_loss placed.
Completed ==
    { t \in Tasks :
        /\ pm_pc[t] # "idle"
        /\ pm_pc'[t] = "idle"
        /\ LET f == pm_frame[t]
           IN \/ /\ f.op = "open_position"
                 /\ pm_pc[t] = "create_take_profit_market_order"
                 /\ take_profit_orders'[f.symbol] = TakeProfitTargets
              \/ /\ f.op = "close_position"
                 /\ f.reopen = "NONE"
                 /\ recorded' # <<>>
              \/ /\ f.op = "process_partial_close"
                 /\ recorded' # <<>>
              \/ /\ f.op = "update_trailing_stop"
                 /\ pm_pc[t] = "create_stop_market_order"
                 /\ venue'[f.symbol].stops = venue[f.symbol].stops + 1 }

\* C27: a presentation sink that is absent or whose log_activity raises
\* does not change what the core does: a handler that has done its work
\* returns its result, as it does with a sink that works.
C27_SinkDoesNotChangeResult ==
    [][\A t \in Completed : pm_frame'[t].returned # "None"]_vars


-----------------------------------------------------------------------------
\* Score claims

\* The price-move component as it is specified: the bucket of the absolute
\* 24h move, with 2, 5 and 10 in the upper bucket.
PriceMoveBucket(price_change) ==
    IF Abs(price_change) >= 10 THEN 20
    ELSE IF Abs(price_change) >= 5 THEN 15
    ELSE IF Abs(price_change) >= 2 THEN 10
    ELSE 5

\* C32: the price-move component of the opportunity score is 5 when the
\* absolute 24h move is below 2%, 10 from 2% to below 5%, 15 from 5% to below
\* 10%, and 20 from 10% on, the boundary values 2, 5 and 10 included: with a
\* calm market, no technical data, no failures and no successes the score of
\* an entry is 50 plus that component.
C32_PriceMoveBuckets ==
    \A s \in SeqToSet(targets) :
        score[s] = (50 + PriceMoveBucket(price_change_24h[s])) * ScoreUnit


-----------------------------------------------------------------------------
\* Leverage cache claims

\* C31: after set_leverage(symbol, L) succeeded, the cached leverage of the
\* symbol is the leverage the venue returned, and it stays so until the next
\* successful set_leverage for the symbol.
C31_CacheHoldsSetLeverage ==
    \A s \in Symbols : venue_leverage[s] # 0 => leverage_cache[s] = venue_leverage[s]


\* The tasks whose update_account_info ends in this step with True.
Refreshed ==
    { t \in Tasks : /\ pm_pc[t] = "get_open_positions"
                    /\ pm_pc'[t] = "idle"
                    /\ pm_frame'[t].returned = "True" }

\* C34: across the refreshes after initialization peak_balance never
\* decreases, and after every successful refresh with a positive peak the
\* drawdown is (peak - total balance) / peak * 100 and is not negative.
C34_PeakMonotoneDrawdownExact ==
    [][/\ peak_balance' >= peak_balance
       /\ (Refreshed # {} /\ peak_balance' > 0) =>
             /\ peak_balance' >= balances'.total
             /\ drawdown' = ((peak_balance' - balances'.total) * 100 * PctUnit)
                               \div peak_balance'
             /\ drawdown' >= 0]_vars

\* A refresh has raised the peak above the initial balance, and a later one
\* has succeeded with the balance below it.
C34_Witness ==
    /\ peak_balance > initial_balance
    /\ balances.total < peak_balance
    /\ drawdown > 0
    /\ \E t \in Tasks : pm_pc[t] = "idle" /\ pm_frame[t].returned = "True"


-----------------------------------------------------------------------------
\* Protection mode claims

\* C33: every transition of protection mode from OFF to ON issues a request
\* to tighten the stop loss of each open position: after the transition the
\* stop of each open position has been replaced, or a stop update for it is
\* in progress.
C33_ProtectionTightensStops ==
    [][(~protection_mode /\ protection_mode') =>
          \A i \in 1..Len(open_positions) :
              LET symbol == open_positions[i].symbol
              IN \/ stop_orders'[symbol] # stop_orders[symbol]
                 \/ \E t \in Tasks : /\ pm_pc'[t] # "idle"
                                     /\ pm_frame'[t].op = "update_trailing_stop"
                                     /\ pm_frame'[t].symbol = symbol]_vars


-----------------------------------------------------------------------------
\* Signal processing claims

\* The tasks whose close_position sends its reduce-only order for the whole
\* position in this step.
FullCloses ==
    { t \in Tasks : /\ pm_pc[t] = "create_market_order"
                    /\ pm_frame[t].op = "close_position"
                    /\ Len(orders') = Len(orders) + 1 }

\* C36: check_and_process_signal submits a full close of an existing
\* position only when the signal direction is opposite to the position's
\* side; with a signal in the position's own direction it submits no full
\* close, whatever the position's PnL.
C36_FullCloseOnlyOnReversal ==
    [][\A t \in FullCloses :
          /\ pm_frame[t].reopen \in SignalTypes
          /\ pm_frame[t].reopen # pm_frame[t].position.side]_vars


\* The tasks whose check_and_process_signal returns in this step from the
\* branch of a position that stays open.
Held ==
    { t \in Tasks :
        /\ pm_pc'[t] = "idle"
        /\ pm_frame'[t] # pm_frame[t]
        /\ \/ pm_pc[t] = "idle"
           \/ /\ "caller" \in DOMAIN pm_frame[t]
              /\ pm_frame[t].caller = "check_and_process_signal" }

\* C35: in the branch of check_and_process_signal for an existing position
\* without a reversal, the result is true if and only if the trailing-stop
\* update moved the stop or the partial close closed quantity in this call;
\* when neither changed anything the result is false.
C35_ResultIffChanged ==
    [][\A t \in Held :
          (pm_frame'[t].returned # "None")
              <=> (stop_orders' # stop_orders \/ orders' # orders)]_vars


\* C37: every call of open_position and close_position returns, and no
\* reachable state has a task waiting for the position lock while the lock
\* is held by a call that waits for that task: in particular no task waits
\* in close_position for the lock it holds itself in open_position.
C37_NoLockSelfWait ==
    \A t \in Tasks : pm_pc[t] = "close_position" => position_lock # t


-----------------------------------------------------------------------------
\* Cycle claims

\* The symbols in which a position that the bot entered is open.
BotPositions ==
    { s \in Symbols : active_trades[s].present /\ venue[s].side # "NONE" }

\* C38: after any sequence of main-loop cycles the number of positions
\* simultaneously open through bot entries never exceeds max_open_positions.
C38_OpenPositionsBounded ==
    Cardinality(BotPositions) <= MaxOpenPositions


\* No operation of the PositionManager is in progress.
PmIdle == \A t \in Tasks : pm_pc[t] = "idle"

\* C39: whenever no PositionManager operation is in progress, every stop
\* order and take-profit order recorded in stop_orders / take_profit_orders
\* for a symbol is a live conditional order on the venue that belongs to a
\* currently open position of that symbol.
C39_RecordedOrdersAreLive ==
    PmIdle =>
        \A s \in Symbols :
            /\ stop_orders[s] # NoStop =>
                   venue[s].side # "NONE" /\ venue[s].stops >= 1
            /\ take_profit_orders[s] # NoLevels =>
                   venue[s].side # "NONE" /\ venue[s].take_profits >= 1


\* C40: whenever calculate_position_size returns a non-zero quantity, the
\* notional it is derived from, after the cap at 25% of the available
\* balance, is at least the symbol's minimum notional.
C40_CappedNotionalAboveMinimum ==
    (sizing.called /\ sizing.result.quantity > 0) =>
        ~FracLess(sizing.result.notional, Frac(sizing.info.min_notional, 1))

=============================================================================
